---------------------------- MODULE Spec2Model ----------------------------
(***************************************************************************)
(* A model of the microservices framework: the ESB controller and its      *)
(* endpoint table (src/esb/controller.rs), the RPC client and server       *)
(* (src/rpc/client.rs, src/rpc/server.rs) and the channel-driven worker    *)
(* thread (src/uthread.rs, src/uservice.rs), the daemon launcher           *)
(* (src/launcher.rs), the failure codes (src/rpc/error.rs), service names  *)
(* (src/esb/bus.rs) and the peer supervisor (src/peer/supervisor.rs).      *)
(*                                                                         *)
(* Each subsystem has its own specification over its own variables; the    *)
(* variables of the other subsystems stay at their initial values.         *)
(*   Spec           the ESB controller used through its API                *)
(*   SpecRun        the ESB controller inside try_run_loop                 *)
(*   SpecRunFair    the same loop, scheduled fairly                        *)
(*   SpecPoll       the ESB controller read with recv_poll                 *)
(*   SpecRelay      three controllers on one bus, one of them the router   *)
(*   SpecRpc        one RPC client talking to one RPC server               *)
(*   SpecRounds     the run loops of the ESB controller and the RPC server *)
(*   SpecUThread    one UThread handle, its senders and its worker         *)
(*   SpecUReport    the worker reporting errors to its monitor             *)
(*   SpecLauncher   daemons launched as threads or processes, and joined   *)
(*   SpecCodes      failure codes converted to 16 bits and back            *)
(*   SpecNames      service names parsed and displayed                     *)
(*   SpecSupervisor the peer supervisor listening                          *)
(*   SpecConnect    the peer supervisor connecting                         *)
(***************************************************************************)
EXTENDS Integers, Sequences, FiniteSets, TLC

(***************************************************************************)
(* Values shared by the subsystems                                         *)
(***************************************************************************)

\* Option::None of an Option<A> field
None == "None"

\* Result::Ok(())
Ok == [ok |-> TRUE]

\* Service addresses (B::Address); three are enough for a source, a router
\* and a destination that all differ.
Addr == {"A", "B", "C"}

\* Bus identifiers (B: BusId)
BusIds == {"ctl", "msg"}

\* The bus several controllers share
RelayBus == "msg"

\* The application's request type (R: Request)
Requests == {"ping", "pong"}

\* request.serialize(): the bytes of a request (a tagged encoding, so that
\* bytes and requests are different values)
serialize(request) == <<"enc", request>>

\* Bytes that are no encoding of any request
Garbage == <<"bad">>

\* unmarshaller.unmarshall(bytes): the request, or a presentation error
unmarshall(bytes) ==
    IF Len(bytes) = 2 /\ bytes[1] = "enc"
    THEN [ok |-> TRUE, request |-> bytes[2]]
    ELSE [ok |-> FALSE, err |-> "Presentation"]

(***************************************************************************)
(* State                                                                   *)
(***************************************************************************)
VARIABLES
    \* ---- ESB controller ----
    identity,     \* what handler.identity() returns
    endpoints,    \* EndpointList: bus id -> Endpoint, or Absent
    lastOp,       \* the last API call on the controller, its arguments and result
    handed,       \* frames passed to session.send_routed_message by the last call
    pollOrder,    \* the iteration order of the endpoint table (the poll set)
    inbox,        \* per bus: frames that arrived and were not received yet
    loopPc,       \* position of try_run_loop
    ready,        \* the buses of this poll round that are not served yet
    pendingErr,   \* the error run() returned, to be passed to handle_err
    lastDispatch, \* what run() did with a frame in the controller's latest step
    arrived,      \* number of frames that arrived so far
    consumed,     \* per bus: number of frames taken out of the socket so far
    dispatched,   \* per bus: which arrivals (first, second, ...) were passed to
                  \* handler.handle or relayed, in the order that happened
    \* ---- RPC client and server ----
    cliPc,        \* per client: position inside RpcClient::request
    cliAwait,     \* per client: the request socket sent and got no reply yet
    cliResult,    \* per client: what the last RpcClient::request returned
    reqChan,      \* per endpoint: request bytes in flight to the server
    repChan,      \* per endpoint: reply bytes in flight to the client
    srvPc,        \* position of RpcServer::try_run_loop
    srvReady,     \* endpoints of this poll round not served yet
    srvErr,       \* the error run() returned, to be passed to handle_err
    srvLast,      \* what the server did with the last request it received
    srvMustReply, \* per endpoint: the reply socket got a request and sent no reply yet
    nHandled,     \* per endpoint: requests passed to handler.handle
    nReplyCalls,  \* per endpoint: send_raw_message calls the server made
    nReplies,     \* per endpoint: replies the transport accepted from the server
    nDelivered,   \* per endpoint: replies the client received
    nRequests,    \* number of RpcClient::request calls so far
    cliCalls,     \* per client: the session calls its last request() made
    \* ---- UThread ----
    ticks,        \* whether a tick interval was given to UThread::new
    clones,       \* number of live USender values obtained from sender()
    chan,         \* the channel: envelopes sent and not yet received
    rxAlive,      \* the worker still owns the Receiver
    workerPc,     \* position of the worker thread
    handlePc,     \* position of the owner of the UThread handle
    threadTaken,  \* self.thread is None (join() took it)
    terminateCalls, \* number of service.terminate() calls
    processed,    \* ids passed to service.process(), in call order
    accepted,     \* ids whose send returned Ok, in send order
    tickCalls,    \* number of service.tick() calls
    tickAt,       \* how many messages were processed when tick() was last called
    nextId,       \* the id the next sent message gets
    lastSend,     \* the last sending operation of a USender: message, result, worker state
    endedBy,      \* what ended the worker loop
    breakAt,      \* which call of process() returned Break (0: none so far)
    tickDue,      \* the tick interval has elapsed since the last tick() (or the start)
    overdue,      \* process() calls made since the interval elapsed
    reports,      \* number of errors the service reported
    lastStep,     \* what the worker's latest loop iteration received and got back
    monitor,      \* what service.monitor() returns, and whether its channel is open
    logFeature,   \* whether the crate is built with the "log" feature
    monChan,      \* the UErrorMsg values sent on the monitor channel, oldest first
    \* Launcher (src/launcher.rs)
    lnHandle,     \* per daemon: what thread_daemon / exec_daemon returned
    lnEnd,        \* per daemon: how the daemon's thread or process ended
    lnJoin,       \* per daemon: what DaemonHandle::join returned
    \* Failure codes (src/rpc/error.rs)
    fcIn,         \* the value or the 16-bit code a conversion starts from
    fcMid,        \* the result of the first conversion
    fcOut,        \* the result of converting that back
    fcOp,         \* which conversions were made
    \* ServiceName (src/esb/bus.rs)
    snIn,         \* the bytes of the string given to from_str
    snName,       \* what from_str returned
    snShown,      \* the bytes of the string the default display wrote
    snOp,         \* whether from_str and the display were called
    \* Peer supervisor (src/peer/supervisor.rs)
    threaded,     \* the `threaded` argument of run()
    svPc,         \* position of the process that called spawner()
    params,       \* the parent's RuntimeParams
    svAccepted,   \* remote addresses of the connections accept() returned, in order
    handlers,     \* the parent's `handlers` vector
    children,     \* the children started, in order: kind, parameters, position
    outbound,     \* Connect mode: connections tried and opened, runtime calls, result
    \* ---- Several controllers on one bus ----
    netEps,       \* per service: the endpoint table of its controller
    netInbox,     \* per service: frames the transport delivered to its socket
    netSent,      \* the Controller::send_to calls made, in order
    netHandled,   \* per service: the arguments of its handler.handle calls
    netRelayed,   \* per service: frames its run() passed on to the session
    netLost,      \* frames a failed receive or a refused send lost
    netPc         \* per service: whether try_run_loop still runs

esbVars == <<identity, endpoints, lastOp, handed, pollOrder, inbox, loopPc, ready,
             pendingErr, lastDispatch, arrived, consumed, dispatched>>
rpcVars == <<cliPc, cliAwait, cliResult, reqChan, repChan, srvPc, srvReady, srvErr,
             srvLast, srvMustReply, nHandled, nReplyCalls, nReplies, nDelivered,
             nRequests, cliCalls>>
utVars  == <<ticks, clones, chan, rxAlive, workerPc, handlePc, threadTaken,
             terminateCalls, processed, accepted, tickCalls, tickAt, nextId,
             lastSend, endedBy, breakAt, tickDue, overdue, reports, lastStep,
             monitor, logFeature, monChan>>
monVars == <<monitor, logFeature, monChan>>
lnVars  == <<lnHandle, lnEnd, lnJoin>>
fcVars  == <<fcIn, fcMid, fcOut, fcOp>>
snVars  == <<snIn, snName, snShown, snOp>>
svVars  == <<threaded, svPc, params, svAccepted, handlers, children, outbound>>
netVars == <<netEps, netInbox, netSent, netHandled, netRelayed, netLost, netPc>>
auxVars == <<lnVars, fcVars, snVars, svVars, netVars>>
notLn   == <<esbVars, rpcVars, utVars, fcVars, snVars, svVars, netVars>>
notFc   == <<esbVars, rpcVars, utVars, lnVars, snVars, svVars, netVars>>
notSn   == <<esbVars, rpcVars, utVars, lnVars, fcVars, svVars, netVars>>
notSv   == <<esbVars, rpcVars, utVars, lnVars, fcVars, snVars, netVars>>
notNet  == <<esbVars, rpcVars, utVars, lnVars, fcVars, snVars, svVars>>
vars == <<esbVars, rpcVars, utVars, auxVars>>

(***************************************************************************)
(* ESB: endpoint table and controller (src/esb/controller.rs)              *)
(***************************************************************************)

\* No endpoint under a bus id
Absent == [present |-> FALSE]

\* No call yet
NoOp == [op |-> "none"]

\* The bus configurations the constructors of BusConfig build; `queued` is a
\* public field, false after every constructor, that the caller may set.
with_addr(router) ==
    [carrier |-> "Locator", api_type |-> "Router", router |-> router,
     queued |-> FALSE, topic |-> None]
with_socket(router) ==
    [carrier |-> "Socket", api_type |-> "Router", router |-> router,
     queued |-> FALSE, topic |-> None]
with_subscription(router, topic) ==
    [carrier |-> "Locator", api_type |-> "Sub", router |-> router,
     queued |-> FALSE, topic |-> topic]

\* The configurations add_service_bus is called with: on the control bus
\* every constructor with every router, on the message bus two of them
Configs(id) ==
    LET routers == Addr \cup {None}
    IN  IF id = "ctl"
        THEN {with_addr(r) : r \in routers}
             \cup {[with_addr(r) EXCEPT !.queued = TRUE] : r \in {None, "B"}}
             \cup {with_socket(r) : r \in {None, "B"}}
             \cup {with_subscription(None, "alpha")}
        ELSE {with_socket(None), with_addr("B")}

\* Endpoint::send_to, the match on self.router: the service address the frame
\* is sent to
select_router_direct(router, source, dest) ==
    IF router = None THEN dest ELSE router

select_router_never(router, source, dest) == dest

select_router(router, source, dest) ==
    IF router = None THEN dest
    ELSE IF source = router THEN dest
    ELSE router

\* Endpoint::send_to with the hop in the error (not what the code does)
Endpoint_send_to_hop_in_error(ep, source, dest, request, transport_ok) ==
    LET data   == serialize(request)
        router == IF ep.router = None THEN dest
                  ELSE IF source = ep.router THEN dest ELSE ep.router
        frame  == [src |-> source, via |-> router, dst |-> dest, msg |-> data]
    IN  [frames |-> <<frame>>,
         result |-> IF transport_ok THEN Ok
                    ELSE [ok |-> FALSE, err |-> "Send", src |-> source, dst |-> router]]

\* Endpoint::send_to: the frame passed to session.send_routed_message and the
\* result, given whether the transport accepts the frame
Endpoint_send_to(ep, source, dest, request, transport_ok) ==
    LET data   == serialize(request)
        router == select_router(ep.router, source, dest)
        frame  == [src |-> source, via |-> router, dst |-> dest, msg |-> data]
    IN  [frames |-> <<frame>>,
         result |-> IF transport_ok THEN Ok
                    ELSE [ok |-> FALSE, err |-> "Send", src |-> source, dst |-> dest]]

\* EndpointList::send_to: look the bus up, then Endpoint::send_to
EndpointList_send_to(eps, bus_id, source, dest, request, transport_ok) ==
    IF ~eps[bus_id].present
    THEN [frames |-> <<>>,
          result |-> [ok |-> FALSE, err |-> "UnknownBusId", bus |-> bus_id]]
    ELSE Endpoint_send_to(eps[bus_id], source, dest, request, transport_ok)

\* add_service_bus, the router normalization: a router equal to the local
\* identity is cleared
normalize_router_never(cfg_router, id) == cfg_router

normalize_router_as_given(cfg_router, id) == cfg_router

normalize_router(cfg_router, id) ==
    IF cfg_router # None /\ cfg_router = id THEN None ELSE cfg_router

\* add_service_bus, the session: LocalSession::connect with the handler's
\* identity for a locator, the adopted socket otherwise; router-mandatory
\* unless queued; the subscription for a Sub socket
new_session_never_mandatory(config, id) ==
    [identity   |-> IF config.carrier = "Locator" THEN id ELSE "unset",
     api_type   |-> config.api_type,
     mandatory  |-> FALSE,
     subscribed |-> IF config.api_type = "Sub"
                    THEN (IF config.topic = None THEN "" ELSE config.topic)
                    ELSE None]

new_session(config, id) ==
    [identity   |-> IF config.carrier = "Locator" THEN id ELSE "unset",
     api_type   |-> config.api_type,
     mandatory  |-> ~config.queued,
     subscribed |-> IF config.api_type = "Sub"
                    THEN (IF config.topic = None THEN "" ELSE config.topic)
                    ELSE None]

\* The endpoint add_service_bus inserts; `configured` and `queued` keep
\* config.router and config.queued as they were given (history fields, read
\* by no operation)
new_endpoint(config, id) ==
    [present |-> TRUE,
     session |-> new_session(config, id),
     router  |-> normalize_router(config.router, id),
     configured |-> config.router,
     queued |-> config.queued]

esbLoopVars == <<pollOrder, inbox, loopPc, ready, pendingErr, lastDispatch, arrived,
                 consumed, dispatched>>

\* Controller::add_service_bus(id, config), when the session is set up
\* without a transport error
add_service_bus(id, config) ==
    /\ loopPc = "setup"
    /\ endpoints' = [endpoints EXCEPT ![id] = new_endpoint(config, identity)]
    /\ lastOp' = [op |-> "add_service_bus", bus |-> id, config |-> config]
    /\ handed' = <<>>
    /\ UNCHANGED <<identity, esbLoopVars, rpcVars, utVars, auxVars>>

\* What the next hop of a frame may be when a frame is sent
Peers == {"connected", "absent", "io_error"}

\* session.send_routed_message on the session's socket: an I/O error fails;
\* a frame to a peer that is not connected fails when the socket is
\* router-mandatory and is dropped without an error when it is not
session_send_never_fails(session, peer) == TRUE

session_send(session, peer) ==
    IF peer = "io_error" THEN FALSE
    ELSE IF peer = "absent" THEN ~session.mandatory
    ELSE TRUE

\* Whether the transport of a bus accepts a frame
transport_accepts(eps, bus_id, peer) ==
    eps[bus_id].present /\ session_send(eps[bus_id].session, peer)

\* EndpointList::send_to(bus_id, source, dest, request), as a handler callback
\* calls it on the table it is given
send_to(bus_id, source, dest, request, peer) ==
    /\ LET r == EndpointList_send_to(endpoints, bus_id, source, dest, request,
                                     transport_accepts(endpoints, bus_id, peer))
       IN  /\ lastOp' = [op |-> "send_to", bus |-> bus_id, source |-> source,
                         dest |-> dest, request |-> request, peer |-> peer,
                         result |-> r.result]
           /\ handed' = r.frames
    /\ UNCHANGED <<identity, endpoints, esbLoopVars, rpcVars, utVars, auxVars>>

\* Controller::send_to(bus_id, dest, request): the handler's identity is the
\* source
Controller_send_to(bus_id, dest, request, peer) ==
    /\ loopPc = "setup"
    /\ LET r == EndpointList_send_to(endpoints, bus_id, identity, dest, request,
                                     transport_accepts(endpoints, bus_id, peer))
       IN  /\ lastOp' = [op |-> "Controller_send_to", bus |-> bus_id,
                         dest |-> dest, request |-> request, peer |-> peer,
                         result |-> r.result]
           /\ handed' = r.frames
    /\ UNCHANGED <<identity, endpoints, esbLoopVars, rpcVars, utVars, auxVars>>


(***************************************************************************)
(* ESB: the run loop (Controller::try_run_loop, run, poll)                 *)
(***************************************************************************)

\* Frames that arrive from the network
MaxFrames == 2

\* No error pending
NoErr == [err |-> "none"]

\* Nothing dispatched yet
NoDispatch == [how |-> "none"]

\* The frames peers send to this node: two sources, two final destinations
\* (so that the node is the source, the destination, both or neither), a
\* well-formed or a malformed payload
ArrivingFrames ==
    {[src |-> s, via |-> identity, dst |-> d, msg |-> m] :
        s \in {"A", "C"}, d \in {"B", "C"}, m \in {serialize("ping"), Garbage}}

\* A frame arrives on a bus (the peer's send; the socket queues it)
net_arrive(bus_id, frame) ==
    /\ loopPc # "setup"
    /\ endpoints[bus_id].present
    /\ arrived < MaxFrames
    /\ arrived' = arrived + 1
    /\ inbox' = [inbox EXCEPT ![bus_id] = Append(@, frame)]
    /\ UNCHANGED <<identity, endpoints, lastOp, handed, pollOrder, loopPc, ready,
                   pendingErr, lastDispatch, consumed, dispatched, rpcVars, utVars,
                   auxVars>>

\* The `?` on handler.on_ready(&mut endpoints): where try_run_loop is after
\* the call
after_on_ready_to_handle_err(handler_ok) == IF handler_ok THEN "poll" ELSE "err"

after_on_ready(handler_ok) == IF handler_ok THEN "poll" ELSE "returned"

\* try_run_loop, first statement: handler.on_ready(&mut endpoints)?
on_ready(handler_ok) ==
    /\ loopPc = "start"
    /\ loopPc' = after_on_ready(handler_ok)
    /\ pendingErr' = IF handler_ok THEN NoErr
                     ELSE [err |-> "ServiceError", from |-> "on_ready"]
    /\ lastOp' = [op |-> "on_ready"]
    /\ UNCHANGED <<identity, endpoints, handed, pollOrder, inbox, ready,
                   lastDispatch, arrived, consumed, dispatched, rpcVars, utVars,
                   auxVars>>

\* The buses of a sequence that have a frame to read, in the sequence's order
RECURSIVE ready_buses(_, _, _)
ready_buses(order, eps, inb) ==
    IF order = <<>> THEN <<>>
    ELSE LET b == Head(order)
             rest == ready_buses(Tail(order), eps, inb)
         IN  IF eps[b].present /\ inb[b] # <<>> THEN <<b>> \o rest ELSE rest

\* Controller::poll: blocks until a bus has an event, returns the ready
\* buses in poll-set order; or zmq::poll fails
poll(poll_ok) ==
    /\ loopPc = "poll"
    /\ poll_ok => ready_buses(pollOrder, endpoints, inbox) # <<>>
    /\ IF poll_ok
       THEN /\ ready' = ready_buses(pollOrder, endpoints, inbox)
            /\ loopPc' = "round"
            /\ pendingErr' = NoErr
       ELSE /\ ready' = <<>>
            /\ loopPc' = "err"
            /\ pendingErr' = [err |-> "Transport", from |-> "poll"]
    /\ lastOp' = [op |-> "poll"]
    /\ lastDispatch' = NoDispatch
    /\ handed' = <<>>
    /\ UNCHANGED <<identity, endpoints, pollOrder, inbox, arrived, consumed, dispatched,
                   rpcVars, utVars, auxVars>>

\* Controller::run, the branch on the frame's destination: handle it here or
\* relay it
dispatch_always_handle(dest, id) == "handle"

dispatch(dest, id) == IF dest = id THEN "handle" ELSE "relay"

\* Controller::run, the body of the loop for one ready bus, as a value:
\* what was consumed, what was called, and the error that ends the round
\*   recv       "ok", or the receive fails and the frame stays ("fail_keep")
\*              or is lost ("fail_drop")
\* handle_calls are the arguments of the calls of handler.handle, relayed the
\* frames EndpointList::send_to passed to the session
\*   handler_ok the result of handler.handle
\*   send_ok    whether the transport accepts a relayed frame
run_bus_body(eps, id, bus_id, frame, recv, handler_ok, send_ok) ==
    LET req == unmarshall(frame.msg)
        how == dispatch(frame.dst, id)
        relay == EndpointList_send_to(eps, bus_id, frame.src, frame.dst,
                                      req.request, send_ok)
    IN  IF recv # "ok"
        THEN [consumed |-> (recv = "fail_drop"), decoded |-> FALSE,
              how |-> "recv_failed", handle_calls |-> <<>>, relayed |-> <<>>,
              err |-> [err |-> "Transport", from |-> "recv"]]
        ELSE IF ~req.ok
        THEN [consumed |-> TRUE, decoded |-> FALSE,
              how |-> "undecoded", handle_calls |-> <<>>, relayed |-> <<>>,
              err |-> [err |-> "Presentation", from |-> "unmarshall"]]
        ELSE IF how = "handle"
        THEN [consumed |-> TRUE, decoded |-> TRUE,
              how |-> "handle", relayed |-> <<>>,
              handle_calls |-> <<[bus_id |-> bus_id, source |-> frame.src,
                                  request |-> req.request]>>,
              err |-> IF handler_ok THEN NoErr
                      ELSE [err |-> "ServiceError", from |-> "handle"]]
        ELSE [consumed |-> TRUE, decoded |-> TRUE,
              how |-> "relay", handle_calls |-> <<>>, relayed |-> relay.frames,
              err |-> IF relay.result.ok THEN NoErr
                      ELSE [err |-> relay.result.err, from |-> "relay"]]

\* Controller::run, the endpoint table after the body ran for a bus: run()
\* inserts, removes and replaces nothing, with or without an error
table_after_dropping(eps, bus_id, err) ==
    IF err # NoErr THEN [eps EXCEPT ![bus_id] = Absent] ELSE eps

table_after(eps, bus_id, err) == eps

\* try_run_loop, where the loop goes after one iteration of run(): an error
\* leaves run() through `?` into the Err arm of the match, which calls
\* handle_err; without an error run() goes on with the rest of the round
after_run_fatal(err, rest) ==
    IF err # NoErr THEN "returned"
    ELSE IF rest = <<>> THEN "poll" ELSE "round"

after_run_going_on(err, rest) ==
    IF rest # <<>> THEN "round"
    ELSE IF err # NoErr THEN "err" ELSE "poll"

after_run(err, rest) ==
    IF err # NoErr THEN "err"
    ELSE IF rest = <<>> THEN "poll" ELSE "round"

\* session.recv_routed_message() on a socket that holds frames: the socket
\* hands out the frame that arrived first; `at` is its place among the
\* frames still queued
socket_recv_newest(q) ==
    [frame |-> q[Len(q)], rest |-> SubSeq(q, 1, Len(q) - 1), at |-> Len(q)]

socket_recv(q) == [frame |-> Head(q), rest |-> Tail(q), at |-> 1]

\* Controller::run, one iteration of `for bus_id in self.poll()?`; an error
\* returns from run() and drops the rest of the round
run_bus(recv, handler_ok, send_ok) ==
    /\ loopPc = "round"
    /\ ready # <<>>
    /\ LET b == Head(ready)
           got == socket_recv(inbox[b])
           frame == got.frame
           r == run_bus_body(endpoints, identity, b, frame, recv, handler_ok,
                             send_ok)
       IN  /\ inbox' = IF r.consumed THEN [inbox EXCEPT ![b] = got.rest] ELSE inbox
           /\ consumed' = IF r.consumed THEN [consumed EXCEPT ![b] = @ + 1]
                          ELSE consumed
           /\ dispatched' = IF r.how \in {"handle", "relay"}
                            THEN [dispatched EXCEPT ![b] = Append(@, consumed[b] + got.at)]
                            ELSE dispatched
           /\ lastDispatch' = [how |-> r.how, bus |-> b, frame |-> frame, did |-> r,
                               behind |-> Tail(ready)]
           /\ handed' = r.relayed
           /\ pendingErr' = r.err
           /\ endpoints' = table_after(endpoints, b, r.err)
           /\ ready' = IF r.err # NoErr THEN <<>> ELSE Tail(ready)
           /\ loopPc' = after_run(r.err, Tail(ready))
    /\ lastOp' = [op |-> "run"]
    /\ UNCHANGED <<identity, pollOrder, arrived, rpcVars, utVars, auxVars>>

(***************************************************************************)
(* Controller::recv_poll: one poll, then one receive and one unmarshall    *)
(* for each ready bus; the items are returned to the caller.               *)
(***************************************************************************)
RecvOutcomes == {"ok", "fail_keep", "fail_drop"}

\* PollItem { bus_id, source, request } with the frame's dst in place of src
poll_item_from_dst(bus_id, frame, request) ==
    [bus_id |-> bus_id, source |-> frame.dst, request |-> request]

\* let source = B::Address::from(routed_frame.src);
\* vec.push(PollItem { bus_id, source, request })
poll_item(bus_id, frame, request) ==
    [bus_id |-> bus_id, source |-> frame.src, request |-> request]

\* the body of recv_poll's for loop for one ready bus
recv_poll_body(bus_id, frame, recv) ==
    LET req == unmarshall(frame.msg)
    IN  IF recv # "ok"
        THEN [consumed |-> (recv = "fail_drop"), items |-> <<>>,
              handle_calls |-> <<>>, relayed |-> <<>>,
              err |-> [err |-> "Transport", from |-> "recv"]]
        ELSE IF ~req.ok
        THEN [consumed |-> TRUE, items |-> <<>>,
              handle_calls |-> <<>>, relayed |-> <<>>,
              err |-> [err |-> "Presentation", from |-> "unmarshall"]]
        ELSE [consumed |-> TRUE, items |-> <<poll_item(bus_id, frame, req.request)>>,
              handle_calls |-> <<>>, relayed |-> <<>>,
              err |-> NoErr]

\* the for loop of recv_poll over the buses poll() returned; the first error
\* leaves the function and the vector built so far is dropped with it
RECURSIVE recv_poll_loop(_, _, _, _)
recv_poll_loop(buses, inb, recvs, acc) ==
    IF buses = <<>>
    THEN [result |-> [ok |-> TRUE, items |-> acc.items], inbox |-> inb,
          taken |-> acc.taken, handle_calls |-> acc.handle_calls,
          relayed |-> acc.relayed, dropped |-> <<>>]
    ELSE LET b == Head(buses)
             got == socket_recv(inb[b])
             r == recv_poll_body(b, got.frame, recvs[b])
             inb2 == IF r.consumed THEN [inb EXCEPT ![b] = got.rest] ELSE inb
             acc2 == [items |-> acc.items \o r.items,
                      taken |-> IF r.consumed
                                THEN Append(acc.taken, [bus |-> b, frame |-> got.frame])
                                ELSE acc.taken,
                      handle_calls |-> acc.handle_calls \o r.handle_calls,
                      relayed |-> acc.relayed \o r.relayed]
         IN  IF r.err # NoErr
             THEN [result |-> [ok |-> FALSE, err |-> r.err], inbox |-> inb2,
                   taken |-> acc2.taken, handle_calls |-> acc2.handle_calls,
                   relayed |-> acc2.relayed, dropped |-> acc.items]
             ELSE recv_poll_loop(Tail(buses), inb2, recvs, acc2)

\* The sockets after a call of recv_poll that left them as r.inbox: what was
\* received is gone from them, whether the call returns Ok or Err
sessions_after_rollback(before, r) == IF r.result.ok THEN r.inbox ELSE before

sessions_after(before, r) == r.inbox

\* pub fn recv_poll(&mut self) -> Result<Vec<PollItem<B, R>>, Error<B::Address>>
recv_poll(poll_ok, recvs) ==
    /\ loopPc = "api"
    /\ poll_ok => ready_buses(pollOrder, endpoints, inbox) # <<>>
    \* an outcome is drawn only for a receive the call can make
    /\ \A b \in BusIds :
          (~poll_ok \/ ~endpoints[b].present \/ inbox[b] = <<>>) => recvs[b] = "ok"
    /\ LET rb == IF poll_ok THEN ready_buses(pollOrder, endpoints, inbox) ELSE <<>>
           r == recv_poll_loop(rb, inbox, recvs,
                               [items |-> <<>>, taken |-> <<>>,
                                handle_calls |-> <<>>, relayed |-> <<>>])
       IN  /\ lastOp' = [op |-> "recv_poll", polls |-> 1, ready |-> rb,
                         taken |-> r.taken, handle_calls |-> r.handle_calls,
                         dropped |-> r.dropped,
                         result |-> IF poll_ok THEN r.result
                                    ELSE [ok |-> FALSE,
                                          err |-> [err |-> "Transport",
                                                   from |-> "poll"]]]
           /\ inbox' = sessions_after(inbox, r)
           /\ consumed' = [b \in BusIds |->
                             consumed[b] + Len(inbox[b])
                                - Len(sessions_after(inbox, r)[b])]
           /\ handed' = r.relayed
    /\ UNCHANGED <<identity, endpoints, pollOrder, loopPc, ready, pendingErr,
                   lastDispatch, arrived, dispatched, rpcVars, utVars, auxVars>>

\* try_run_loop, the Err arm: self.handler.handle_err(&mut endpoints, err)?
handle_err(handler_ok) ==
    /\ loopPc = "err"
    /\ loopPc' = IF handler_ok THEN "poll" ELSE "returned"
    /\ pendingErr' = IF handler_ok THEN NoErr
                     ELSE [err |-> "ServiceError", from |-> "handle_err"]
    /\ lastOp' = [op |-> "handle_err", error |-> pendingErr]
    /\ lastDispatch' = NoDispatch
    /\ handed' = <<>>
    /\ UNCHANGED <<identity, endpoints, pollOrder, inbox, ready, arrived, consumed,
                   dispatched, rpcVars,
                   utVars, auxVars>>


(***************************************************************************)
(* RPC: client and server (src/rpc/client.rs, src/rpc/server.rs)           *)
(*                                                                         *)
(* One server with a reply-role session per endpoint; per endpoint one     *)
(* client whose table holds that endpoint only, with a request-role        *)
(* session.  A request socket alternates send and receive, a reply socket  *)
(* receive and send.                                                       *)
(***************************************************************************)

\* RpcClient::request calls over a run
MaxRequests == 3

\* Endpoint ids (E: EndpointId)
RpcEndpoints == {"e1", "e2"}

\* The order the server's session table iterates in
RpcOrder == <<"e1", "e2">>

\* Requests of the API the server's unmarshaller knows
KnownRequests == {"get"}

\* Requests a client may serialize: those, and one of a type the server's
\* unmarshaller does not know
RpcRequests == KnownRequests \cup {"unknown"}

\* Errors a handler returns (H::Error)
HandlerErrors == {"boom"}

\* unmarshaller.unmarshall of a request on the server
unmarshall_request_any(raw) == [ok |-> TRUE, request |-> raw[2]]

unmarshall_request(raw) ==
    IF Len(raw) = 2 /\ raw[1] = "enc" /\ raw[2] \in KnownRequests
    THEN [ok |-> TRUE, request |-> raw[2]]
    ELSE [ok |-> FALSE, err |-> "Presentation"]

\* A reply of the API: a success variant, or the failure variant
Success(data) == [kind |-> "Success", data |-> data]
FailureReply(failure) == [kind |-> "Failure", failure |-> failure]

\* err.into(): Failure { code: FailureCode::Runtime, info: err.to_string() }
into_failure(err) == [code |-> "Runtime", info |-> err]

\* RpcServer::run, the reply for a handler result:
\* handler.handle(..).unwrap_or_else(|err| A::Reply::from(err.into()))
reply_for_dropping_errors(handled) ==
    IF handled.ok THEN <<handled.reply>> ELSE <<>>

reply_for(handled) ==
    IF handled.ok THEN <<handled.reply>>
    ELSE <<FailureReply(into_failure(handled.err))>>

\* What handler.handle may return for a request
HandlerResults ==
    {[ok |-> TRUE, reply |-> Success("data")]}
    \cup {[ok |-> FALSE, err |-> e] : e \in HandlerErrors}

\* unmarshaller.unmarshall of a reply on the client
unmarshall_reply(raw) ==
    IF Len(raw) = 2 /\ raw[1] = "enc"
    THEN [ok |-> TRUE, reply |-> raw[2]]
    ELSE [ok |-> FALSE, err |-> "Presentation"]

\* RpcClient::request, what it returns for a decoded reply:
\* Ok((&*reply).clone()), whatever variant the reply is
request_result(reply) == [ok |-> TRUE, reply |-> reply]

NoResult == [ok |-> FALSE, err |-> "none"]

NoServed == [how |-> "none"]

\* No session call made
NoCalls == [sends |-> 0, sent |-> FALSE, recvs |-> 0]

\* session.send_raw_message(&data)?: where request() goes on after the send
after_send_always_recv(sent) == "recv"

after_send(sent) == IF sent THEN "recv" ELSE "idle"

\* RpcClient::request(endpoint, request) on client c, up to and including
\* session.send_raw_message(&data)?
request(c, endpoint, req, send_ok) ==
    /\ cliPc[c] = "idle"
    /\ nRequests < MaxRequests
    /\ nRequests' = nRequests + 1
    /\ IF endpoint # c
       THEN /\ cliResult' = [cliResult EXCEPT ![c] =
                   [ok |-> FALSE, err |-> "UnknownEndpoint", endpoint |-> endpoint]]
            /\ cliCalls' = [cliCalls EXCEPT ![c] = NoCalls]
            /\ UNCHANGED <<cliPc, cliAwait, reqChan>>
       ELSE LET sent == send_ok /\ ~cliAwait[c]
            IN  /\ cliCalls' = [cliCalls EXCEPT ![c] =
                       [sends |-> 1, sent |-> sent, recvs |-> 0]]
                /\ cliPc' = [cliPc EXCEPT ![c] = after_send(sent)]
                /\ IF ~sent
                   THEN /\ cliResult' = [cliResult EXCEPT ![c] =
                               [ok |-> FALSE, err |-> "Transport", from |-> "send"]]
                        /\ UNCHANGED <<cliAwait, reqChan>>
                   ELSE /\ reqChan' = [reqChan EXCEPT ![c] = Append(@, serialize(req))]
                        /\ cliAwait' = [cliAwait EXCEPT ![c] = TRUE]
                        /\ cliResult' = [cliResult EXCEPT ![c] = NoResult]
    /\ UNCHANGED <<repChan, srvPc, srvReady, srvErr, srvLast, srvMustReply,
                   nHandled, nReplyCalls, nReplies, nDelivered, esbVars, utVars, auxVars>>

\* RpcClient::request, from session.recv_raw_message()? to the end
request_recv(c, recv_ok) ==
    /\ cliPc[c] = "recv"
    /\ cliPc' = [cliPc EXCEPT ![c] = "idle"]
    /\ cliCalls' = [cliCalls EXCEPT ![c].recvs = @ + 1]
    /\ IF ~recv_ok \/ ~cliCalls[c].sent
       THEN /\ cliResult' = [cliResult EXCEPT ![c] =
                   [ok |-> FALSE, err |-> "Transport", from |-> "recv"]]
            /\ UNCHANGED <<repChan, cliAwait, nDelivered>>
       ELSE /\ repChan[c] # <<>>
            /\ repChan' = [repChan EXCEPT ![c] = Tail(@)]
            /\ cliAwait' = [cliAwait EXCEPT ![c] = FALSE]
            /\ nDelivered' = [nDelivered EXCEPT ![c] = @ + 1]
            /\ LET reply == unmarshall_reply(Head(repChan[c]))
               IN  cliResult' = [cliResult EXCEPT ![c] =
                       IF reply.ok THEN request_result(reply.reply)
                       ELSE [ok |-> FALSE, err |-> "Presentation", from |-> "recv"]]
    /\ UNCHANGED <<reqChan, srvPc, srvReady, srvErr, srvLast, srvMustReply,
                   nHandled, nReplyCalls, nReplies, nRequests, esbVars, utVars,
                   auxVars>>

\* The endpoints of a sequence whose session has a request to read
RECURSIVE ready_endpoints(_, _, _)
ready_endpoints(order, chans, must_reply) ==
    IF order = <<>> THEN <<>>
    ELSE LET e == Head(order)
             rest == ready_endpoints(Tail(order), chans, must_reply)
         IN  IF chans[e] # <<>> /\ ~must_reply[e] THEN <<e>> \o rest ELSE rest

\* RpcServer::run, up to the list of ready endpoints; or zmq::poll fails
rpc_poll(poll_ok) ==
    /\ srvPc = "poll"
    /\ poll_ok => ready_endpoints(RpcOrder, reqChan, srvMustReply) # <<>>
    /\ IF poll_ok
       THEN /\ srvReady' = ready_endpoints(RpcOrder, reqChan, srvMustReply)
            /\ srvPc' = "round"
            /\ srvErr' = NoErr
       ELSE /\ srvReady' = <<>>
            /\ srvPc' = "err"
            /\ srvErr' = [err |-> "Transport", from |-> "poll"]
    /\ UNCHANGED <<cliPc, cliAwait, cliResult, reqChan, repChan, srvLast,
                   srvMustReply, nHandled, nReplyCalls, nReplies, nDelivered,
                   nRequests, cliCalls, esbVars, utVars, auxVars>>

\* RpcServer::run, the error one handled request ends the round with: only
\* `session.send_raw_message(&data)?` can fail after handler.handle, whose
\* own Err was turned into a reply by unwrap_or_else
served_error_of_handler(handled, replies, send_ok) ==
    IF ~handled.ok THEN [err |-> "ServiceError", from |-> "handle"]
    ELSE IF send_ok \/ replies = <<>> THEN NoErr
    ELSE [err |-> "Transport", from |-> "send"]

served_error(handled, replies, send_ok) ==
    IF send_ok \/ replies = <<>> THEN NoErr
    ELSE [err |-> "Transport", from |-> "send"]

\* RpcServer::run, the body of `for endpoint in endpoints` for one endpoint,
\* as a value: what was called and the error that ends the round
rpc_serve_body(raw, recv_ok, handled, send_ok) ==
    LET req == unmarshall_request(raw)
        replies == reply_for(handled)
    IN  IF ~recv_ok
        THEN [how |-> "recv_failed", consumed |-> FALSE, handle_calls |-> 0,
              send_calls |-> <<>>, sent |-> <<>>,
              err |-> [err |-> "Transport", from |-> "recv"]]
        ELSE IF ~req.ok
        THEN [how |-> "undecoded", consumed |-> TRUE, handle_calls |-> 0,
              send_calls |-> <<>>, sent |-> <<>>,
              err |-> [err |-> "Presentation", from |-> "unmarshall"]]
        ELSE [how |-> "handled", consumed |-> TRUE, handle_calls |-> 1,
              request |-> req.request, handled |-> handled,
              send_calls |-> replies,
              sent |-> IF send_ok THEN replies ELSE <<>>,
              err |-> served_error(handled, replies, send_ok)]

\* RpcServer::run, one iteration of `for endpoint in endpoints`; an error
\* returns from run() and drops the rest of the round
rpc_serve(recv_ok, handled, send_ok) ==
    /\ srvPc = "round"
    /\ srvReady # <<>>
    /\ LET e == Head(srvReady)
           r == rpc_serve_body(Head(reqChan[e]), recv_ok, handled, send_ok)
       IN  /\ reqChan' = IF r.consumed THEN [reqChan EXCEPT ![e] = Tail(@)]
                         ELSE reqChan
           /\ srvMustReply' = [srvMustReply EXCEPT ![e] =
                                  (@ \/ r.consumed) /\ r.sent = <<>>]
           /\ repChan' = [repChan EXCEPT ![e] =
                             @ \o [i \in 1..Len(r.sent) |-> <<"enc", r.sent[i]>>]]
           /\ nHandled' = [nHandled EXCEPT ![e] = @ + r.handle_calls]
           /\ nReplyCalls' = [nReplyCalls EXCEPT ![e] = @ + Len(r.send_calls)]
           /\ nReplies' = [nReplies EXCEPT ![e] = @ + Len(r.sent)]
           /\ srvLast' = [how |-> r.how, endpoint |-> e, did |-> r]
           /\ srvErr' = r.err
           /\ IF r.err # NoErr
              THEN srvPc' = "err" /\ srvReady' = <<>>
              ELSE /\ srvReady' = Tail(srvReady)
                   /\ srvPc' = IF Tail(srvReady) = <<>> THEN "poll" ELSE "round"
    /\ UNCHANGED <<cliPc, cliAwait, cliResult, nDelivered, nRequests, cliCalls, esbVars,
                   utVars, auxVars>>

\* RpcServer::try_run_loop, the Err arm: self.handler.handle_err(err)?
rpc_handle_err(handler_ok) ==
    /\ srvPc = "err"
    /\ srvPc' = IF handler_ok THEN "poll" ELSE "returned"
    /\ srvErr' = IF handler_ok THEN NoErr ELSE srvErr
    /\ srvLast' = [how |-> "handle_err", error |-> srvErr]
    /\ UNCHANGED <<cliPc, cliAwait, cliResult, reqChan, repChan, srvReady,
                   srvMustReply, nHandled, nReplyCalls, nReplies, nDelivered,
                   nRequests, cliCalls, esbVars, utVars, auxVars>>


(***************************************************************************)
(* UThread: the handle, its senders and the worker (src/uthread.rs,        *)
(* src/uservice.rs)                                                        *)
(*                                                                         *)
(* The channel is crossbeam's unbounded channel: a send succeeds while the *)
(* Receiver is alive, a receive takes the oldest envelope, reports a       *)
(* timeout only when the channel is empty, and a disconnection only when   *)
(* it is empty and every Sender is dropped.                                *)
(***************************************************************************)

\* Messages sent over a run
MaxMsgs == 3

\* tick() calls over a run
MaxTicks == 2

\* USender values alive at a time
MaxClones == 2

\* UMsg::Msg(msg) and UMsg::Terminate
Msg(id) == [kind |-> "Msg", id |-> id]
Terminate == [kind |-> "Terminate"]

\* What service.process(msg) may return
ProcessResults == {"Continue", "Break0", "Break2", "Err"}

\* receiver.recv() on a channel that holds envelopes: the oldest envelope,
\* and the channel without it
recv_newest(ch) == [env |-> ch[Len(ch)], rest |-> SubSeq(ch, 1, Len(ch) - 1)]

recv_terminate_first(ch) ==
    IF \E i \in 1..Len(ch) : ch[i] = Terminate
    THEN [env |-> Terminate, rest |-> SelectSeq(ch, LAMBDA e : e # Terminate)]
    ELSE [env |-> Head(ch), rest |-> Tail(ch)]

recv(ch) == [env |-> Head(ch), rest |-> Tail(ch)]

\* The worker loop, the match on service.process(msg): whether the loop goes
\* on, and whether terminate() is called
after_process_never_stops(result) == [stop |-> FALSE, terminate |-> 0]

after_process_without_call(result) ==
    [stop |-> result \in {"Break0", "Break2"}, terminate |-> 0]

after_process(result) ==
    IF result \in {"Break0", "Break2"}
    THEN [stop |-> TRUE, terminate |-> 1]
    ELSE [stop |-> FALSE, terminate |-> 0]

\* The worker loop, the arm for Ok(UMsg::Terminate)
on_terminate_without_call == [stop |-> TRUE, terminate |-> 0]

on_terminate_going_on == [stop |-> FALSE, terminate |-> 1]

on_terminate == [stop |-> TRUE, terminate |-> 1]

\* The worker loop, the arm for Err(RecvTimeoutError::Disconnected):
\* the error is reported, terminate() is not called
on_disconnected == [stop |-> TRUE, terminate |-> 0]

\* Whether a Sender of the channel is alive: the handle's own (dropped with
\* the handle, after Drop::drop ran) or a USender obtained from sender()
senders_alive == handlePc \notin {"dropped", "panicked"} \/ clones > 0

NoSend == [id |-> 0]

NotEnded == [by |-> "none"]

\* What the worker did not do yet
NoStep == [did |-> "none"]

\* const NAME of the service
NAME == "svc"

\* What monitor() may be: None, a USender whose receiver is alive, or one
\* whose receiver is gone
Monitors == {"absent", "open", "broken"}

\* The Display of the errors process() and tick() return
ProcessError == "bad message"
TickError == "late"

\* UErrorSender::report_brief(err): the monitor channel after the call.  The
\* block that sends to the monitor is compiled only with the "log" feature;
\* without a monitor it returns early, and a failed send is logged only
report_brief(log, mon, ch, error) ==
    IF ~log THEN ch
    ELSE IF mon = "absent" THEN ch
    ELSE IF mon = "open" THEN Append(ch, [service |-> NAME, error |-> error])
    ELSE ch

\* UErrorSender::report(context, err): format!("{context} - {err}"), then
\* report_brief
report(log, mon, ch, context, err) ==
    report_brief(log, mon, ch, <<context, " - ", err>>)

\* The worker loop, the arm for Err(RecvTimeoutError::Timeout): tick(), its
\* error reported, then `continue`
on_timeout_stopping(tick_ok) == [stop |-> ~tick_ok, terminate |-> 0]

on_timeout(tick_ok) == [stop |-> FALSE, terminate |-> 0]

\* One iteration of the worker's loop: recv(), then the match on its result
\* and, for a message, the match on service.process(msg)
worker_step(result, tick_ok) ==
    /\ workerPc = "loop"
    /\ IF chan # <<>>
       THEN LET env == recv(chan).env
            IN  /\ chan' = recv(chan).rest
                /\ IF env = Terminate
                   THEN /\ terminateCalls' = terminateCalls + on_terminate.terminate
                        /\ workerPc' = IF on_terminate.stop THEN "finished" ELSE "loop"
                        /\ endedBy' = IF on_terminate.stop THEN [by |-> "Terminate"]
                                      ELSE endedBy
                        /\ lastStep' = [did |-> "terminate"]
                        /\ UNCHANGED <<processed, breakAt, overdue, reports, monChan>>
                   ELSE /\ processed' = Append(processed, env.id)
                        /\ terminateCalls' =
                               terminateCalls + after_process(result).terminate
                        /\ workerPc' = IF after_process(result).stop
                                       THEN "finished" ELSE "loop"
                        /\ endedBy' = IF after_process(result).stop
                                      THEN [by |-> "Break", code |-> result]
                                      ELSE endedBy
                        /\ breakAt' = IF result \in {"Break0", "Break2"}
                                      THEN Len(processed) + 1 ELSE breakAt
                        /\ reports' = IF result = "Err" THEN reports + 1
                                      ELSE reports
                        /\ monChan' = IF result = "Err"
                                      THEN report(logFeature, monitor, monChan,
                                                  "service process error", ProcessError)
                                      ELSE monChan
                        /\ lastStep' = [did |-> "process", id |-> env.id,
                                        result |-> result]
                        /\ overdue' = IF tickDue THEN overdue + 1 ELSE overdue
                /\ UNCHANGED <<tickCalls, tickAt, tickDue>>
       ELSE IF ~senders_alive
       THEN /\ terminateCalls' = terminateCalls + on_disconnected.terminate
            /\ workerPc' = "finished"
            /\ endedBy' = [by |-> "Disconnected"]
            /\ reports' = reports + 1
            /\ monChan' = report(logFeature, monitor, monChan,
                                 "channel to the service is broken", "disconnected")
            /\ lastStep' = [did |-> "disconnected"]
            /\ UNCHANGED <<chan, processed, breakAt, tickCalls, tickAt, tickDue,
                           overdue>>
       ELSE /\ ticks
            /\ tickDue
            /\ tickCalls < MaxTicks
            /\ tickDue' = FALSE
            /\ overdue' = 0
            /\ tickCalls' = tickCalls + 1
            /\ tickAt' = Len(processed)
            /\ reports' = IF tick_ok THEN reports ELSE reports + 1
            /\ monChan' = IF tick_ok THEN monChan
                          ELSE report(logFeature, monitor, monChan,
                                      "service tick error", TickError)
            /\ lastStep' = [did |-> "tick", ok |-> tick_ok]
            /\ workerPc' = IF on_timeout(tick_ok).stop THEN "finished" ELSE "loop"
            /\ endedBy' = IF on_timeout(tick_ok).stop
                          THEN [by |-> "TickError"] ELSE endedBy
            /\ UNCHANGED <<chan, processed, terminateCalls, breakAt>>
    /\ UNCHANGED <<ticks, clones, rxAlive, handlePc, threadTaken, accepted, nextId,
                   lastSend, monitor, logFeature, esbVars, rpcVars, auxVars>>

\* Time passes: the tick interval given to recv_timeout has elapsed since
\* the last tick() (or since the loop began)
elapse ==
    /\ ticks
    /\ workerPc = "loop"
    /\ ~tickDue
    /\ tickDue' = TRUE
    /\ UNCHANGED <<ticks, clones, chan, rxAlive, workerPc, handlePc, threadTaken,
                   terminateCalls, processed, accepted, tickCalls, tickAt, nextId,
                   lastSend, endedBy, breakAt, overdue, reports, lastStep, monVars, esbVars, rpcVars, auxVars>>

\* The worker's closure returns: the Receiver and the service are dropped
\* and the thread ends
worker_exit ==
    /\ workerPc = "finished"
    /\ workerPc' = "exited"
    /\ rxAlive' = FALSE
    /\ UNCHANGED <<ticks, clones, chan, handlePc, threadTaken, terminateCalls,
                   processed, accepted, tickCalls, tickAt, nextId, lastSend,
                   endedBy, breakAt, tickDue, overdue,
                   reports, lastStep, monVars, esbVars, rpcVars, auxVars>>

\* UThread::sender(): a new USender on the handle's channel
sender ==
    /\ handlePc = "alive"
    /\ clones < MaxClones
    /\ clones' = clones + 1
    /\ UNCHANGED <<ticks, chan, rxAlive, workerPc, handlePc, threadTaken,
                   terminateCalls, processed, accepted, tickCalls, tickAt, nextId,
                   lastSend, endedBy, breakAt, tickDue, overdue,
                   reports, lastStep, monVars, esbVars, rpcVars, auxVars>>

\* A USender is dropped
drop_sender ==
    /\ clones > 0
    /\ clones' = clones - 1
    /\ UNCHANGED <<ticks, chan, rxAlive, workerPc, handlePc, threadTaken,
                   terminateCalls, processed, accepted, tickCalls, tickAt, nextId,
                   lastSend, endedBy, breakAt, tickDue, overdue,
                   reports, lastStep, monVars, esbVars, rpcVars, auxVars>>

\* The public sending operations of USender
SendOps == {"send", "try_send", "send_timeout", "send_deadline"}

\* USender::send / try_send / send_timeout / send_deadline, the envelope
\* passed to the channel: always UMsg::Msg(msg)
sent_envelope_terminate(id) == Terminate

sent_envelope(id) == Msg(id)

\* The map_err of the sending operations (convert_timeout_error for the
\* timed ones): the message is taken out of the envelope the channel gave
\* back; the arm for UMsg::Terminate is unreachable!()
send_error(env) ==
    IF env.kind = "Msg"
    THEN [ok |-> FALSE, err |-> "Disconnected", msg |-> env.id]
    ELSE [ok |-> FALSE, err |-> "unreachable", msg |-> env]

\* USender::send(msg) and its three variants: Ok while the Receiver is
\* alive, else the message comes back in the error.  The channel is
\* unbounded, so it is never full and a timed send never times out.
send(op) ==
    /\ clones > 0
    /\ nextId <= MaxMsgs
    /\ nextId' = nextId + 1
    /\ IF rxAlive
       THEN /\ chan' = Append(chan, sent_envelope(nextId))
            /\ accepted' = Append(accepted, nextId)
            /\ lastSend' = [id |-> nextId, op |-> op, result |-> Ok,
                            exited |-> (workerPc = "exited")]
       ELSE /\ lastSend' = [id |-> nextId, op |-> op,
                            result |-> send_error(sent_envelope(nextId)),
                            exited |-> (workerPc = "exited")]
            /\ UNCHANGED <<chan, accepted>>
    /\ UNCHANGED <<ticks, clones, rxAlive, workerPc, handlePc, threadTaken,
                   terminateCalls, processed, tickCalls, tickAt, endedBy, breakAt,
                   tickDue, overdue, reports, lastStep, monVars,
                   esbVars, rpcVars, auxVars>>

\* What UThread::join() puts into the channel before it waits: nothing
join_sends_terminate == <<Terminate>>

join_sends == <<>>

\* UThread::join(), the call: take self.thread and wait for it, or return
\* Ok at once when it was taken before
join ==
    /\ handlePc = "alive"
    /\ IF threadTaken
       THEN UNCHANGED <<handlePc, threadTaken, chan>>
       ELSE /\ handlePc' = "joining"
            /\ threadTaken' = TRUE
            /\ chan' = chan \o join_sends
    /\ UNCHANGED <<ticks, clones, rxAlive, workerPc, terminateCalls,
                   processed, accepted, tickCalls, tickAt, nextId, lastSend,
                   endedBy, breakAt, tickDue, overdue,
                   reports, lastStep, monVars, esbVars, rpcVars, auxVars>>

\* UThread::join(), thread.join() returns once the worker thread has ended
join_return ==
    /\ handlePc = "joining"
    /\ workerPc = "exited"
    /\ handlePc' = "alive"
    /\ UNCHANGED <<ticks, clones, chan, rxAlive, workerPc, threadTaken,
                   terminateCalls, processed, accepted, tickCalls, tickAt, nextId,
                   lastSend, endedBy, breakAt, tickDue, overdue,
                   reports, lastStep, monVars, esbVars, rpcVars, auxVars>>

\* self.sender.send(UMsg::Terminate) in Drop: Ok while the Receiver is alive,
\* Err(SendError) once the worker's closure has returned and dropped it
send_terminate_lenient(rx_alive) == TRUE

send_terminate(rx_alive) == rx_alive

\* Drop for UThread, the send of UMsg::Terminate: a failed send panics;
\* after it, self.thread is joined if it is still there
drop ==
    /\ handlePc = "alive"
    /\ IF ~send_terminate(rxAlive)
       THEN handlePc' = "panicked" /\ UNCHANGED chan
       ELSE /\ chan' = Append(chan, Terminate)
            /\ handlePc' = IF threadTaken THEN "dropped" ELSE "drop_join"
    /\ UNCHANGED <<ticks, clones, rxAlive, workerPc, threadTaken, terminateCalls,
                   processed, accepted, tickCalls, tickAt, nextId, lastSend,
                   endedBy, breakAt, tickDue, overdue,
                   reports, lastStep, monVars, esbVars, rpcVars, auxVars>>

\* Drop for UThread, thread.join() returns once the worker thread has ended
drop_join ==
    /\ handlePc = "drop_join"
    /\ workerPc = "exited"
    /\ handlePc' = "dropped"
    /\ UNCHANGED <<ticks, clones, chan, rxAlive, workerPc, threadTaken,
                   terminateCalls, processed, accepted, tickCalls, tickAt, nextId,
                   lastSend, endedBy, breakAt, tickDue, overdue,
                   reports, lastStep, monVars, esbVars, rpcVars, auxVars>>


(***************************************************************************)
(* Launcher: daemons as threads or processes (src/launcher.rs)             *)
(***************************************************************************)

\* The largest exit status a daemon process ends with
MaxStatus == 2

\* Launcher values (DaemonName)
DaemonNames == {"d1", "d2"}

\* Errors run_impl returns (Launcher::RunError)
RunErrors == {"e1", "e2"}

\* How run_impl ends in the daemon's thread
RunOutcomes ==
    {[how |-> "Ok"], [how |-> "Panic"]} \cup {[how |-> "Err", err |-> e] : e \in RunErrors}

\* What proc.wait() returns for the daemon's process
WaitResults ==
    {[ok |-> FALSE, err |-> "io"]} \cup {[ok |-> TRUE, status |-> st] : st \in 0..MaxStatus}

NoHandle == [ok |-> FALSE, err |-> [kind |-> "none"]]
NoEnd == [how |-> "none"]
NoJoin == [ok |-> FALSE, err |-> [kind |-> "none"]]

\* The closure thread_daemon spawns: run_impl's Err is the thread's result,
\* its Ok hits unreachable!() and the thread panics
thread_body_returning_ok(outcome) ==
    IF outcome.how = "Err"
    THEN [panicked |-> FALSE, result |-> [ok |-> FALSE, err |-> outcome.err]]
    ELSE IF outcome.how = "Ok" THEN [panicked |-> FALSE, result |-> Ok]
    ELSE [panicked |-> TRUE]

thread_body(outcome) ==
    IF outcome.how = "Err" THEN [panicked |-> FALSE, result |-> [ok |-> FALSE, err |-> outcome.err]]
    ELSE [panicked |-> TRUE]

\* ExitStatus::success()
success(status) == status = 0

\* DaemonHandle::join(self), given what thread.join() or proc.wait() returns
join_result_ignoring_end(handle, end) == Ok

join_result(handle, end) ==
    IF handle.kind = "Process"
    THEN IF ~end.ok
         THEN [ok |-> FALSE, err |-> [kind |-> "ProcessLaunch", name |-> handle.name,
                                      io |-> end.err]]
         ELSE IF success(end.status) THEN Ok
         ELSE [ok |-> FALSE, err |-> [kind |-> "ProcessAborted", name |-> handle.name,
                                      status |-> end.status]]
    ELSE IF end.panicked
         THEN [ok |-> FALSE, err |-> [kind |-> "ThreadJoin", name |-> handle.name]]
         ELSE IF end.result.ok THEN Ok
         ELSE [ok |-> FALSE, err |-> [kind |-> "ThreadAborted", name |-> handle.name,
                                      err |-> end.result.err]]

\* Launcher::thread_daemon(self, config)
thread_daemon(d, spawn_ok) ==
    /\ lnHandle[d] = NoHandle
    /\ lnHandle' = [lnHandle EXCEPT ![d] =
          IF spawn_ok THEN [ok |-> TRUE, handle |-> [kind |-> "Thread", name |-> d]]
          ELSE [ok |-> FALSE, err |-> [kind |-> "ThreadLaunch", name |-> d, io |-> "io"]]]
    /\ UNCHANGED <<lnEnd, lnJoin, notLn>>

\* Launcher::exec_daemon(self): current_exe, cmd_args, spawn
exec_daemon(d, failed) ==
    /\ lnHandle[d] = NoHandle
    /\ lnHandle' = [lnHandle EXCEPT ![d] =
          IF failed = "none"
          THEN [ok |-> TRUE, handle |-> [kind |-> "Process", name |-> d]]
          ELSE IF failed = "cmd_args"
          THEN [ok |-> FALSE, err |-> [kind |-> "cmd_args", name |-> d]]
          ELSE [ok |-> FALSE, err |-> [kind |-> "ProcessLaunch", name |-> d, io |-> "io"]]]
    /\ UNCHANGED <<lnEnd, lnJoin, notLn>>

\* The daemon ends: run_impl returns or panics in its thread, or its process
\* exits and proc.wait() has a result
daemon_end(d, outcome, waited) ==
    /\ lnHandle[d].ok
    /\ lnEnd[d] = NoEnd
    /\ lnEnd' = [lnEnd EXCEPT ![d] =
          IF lnHandle[d].handle.kind = "Thread"
          THEN [how |-> "Thread", run |-> outcome, end |-> thread_body(outcome)]
          ELSE [how |-> "Process", end |-> waited]]
    /\ UNCHANGED <<lnHandle, lnJoin, notLn>>

\* DaemonHandle::join(self): returns once the daemon has ended
daemon_join(d) ==
    /\ lnHandle[d].ok
    /\ lnEnd[d] # NoEnd
    /\ lnJoin[d] = NoJoin
    /\ lnJoin' = [lnJoin EXCEPT ![d] = join_result(lnHandle[d].handle, lnEnd[d].end)]
    /\ UNCHANGED <<lnHandle, lnEnd, notLn>>

(***************************************************************************)
(* Failure codes and their 16-bit encoding (src/rpc/error.rs)              *)
(***************************************************************************)

\* The largest u16
U16Max == 65535

\* The codes of the reserved variants
PresentationCode == 4096
TransportCode == 8192
FramingCode == 12288
UnexpectedRequestCode == 16384
RuntimeCode == 20480

\* 0x0FFF, the mask of a service-specific code
ExtMask == 4095

U16 == 0..U16Max

ReservedVariants ==
    {"Presentation", "Transport", "Framing", "UnexpectedRequest", "Runtime"}

\* FailureCode::Other(ext); the extension type is a wrapper of the u16 it
\* converts from and into
Other(ext) == [variant |-> "Other", ext |-> ext]

Reserved(name) == [variant |-> name]

\* x & 0x0FFF on a u16
and_mask(x) == x % (ExtMask + 1)

\* u16::from(code: FailureCode)
to_u16(code) ==
    CASE code.variant = "Presentation" -> PresentationCode
      [] code.variant = "Transport" -> TransportCode
      [] code.variant = "Framing" -> FramingCode
      [] code.variant = "UnexpectedRequest" -> UnexpectedRequestCode
      [] code.variant = "Runtime" -> RuntimeCode
      [] OTHER -> and_mask(code.ext)

\* FailureCode::from(code: u16)
from_u16_all_other(code) == Other(code)

from_u16(code) ==
    IF code = to_u16(Reserved("Presentation")) THEN Reserved("Presentation")
    ELSE IF code = to_u16(Reserved("Transport")) THEN Reserved("Transport")
    ELSE IF code = to_u16(Reserved("Framing")) THEN Reserved("Framing")
    ELSE IF code = to_u16(Reserved("UnexpectedRequest")) THEN Reserved("UnexpectedRequest")
    ELSE IF code = to_u16(Reserved("Runtime")) THEN Reserved("Runtime")
    ELSE Other(code)

\* A failure code is encoded and the code decoded
encode_decode ==
    /\ fcOp = "none"
    /\ fcIn.is = "value"
    /\ fcMid' = to_u16(fcIn.value)
    /\ fcOut' = from_u16(to_u16(fcIn.value))
    /\ fcOp' = "encode_decode"
    /\ UNCHANGED <<fcIn, notFc>>

\* A 16-bit code is decoded and the failure code encoded
decode_encode ==
    /\ fcOp = "none"
    /\ fcIn.is = "code"
    /\ fcMid' = from_u16(fcIn.code)
    /\ fcOut' = to_u16(from_u16(fcIn.code))
    /\ fcOp' = "decode_encode"
    /\ UNCHANGED <<fcIn, notFc>>

(***************************************************************************)
(* ServiceName: a 32-byte name (src/esb/bus.rs)                            *)
(***************************************************************************)

\* The length of ServiceName's array
NameLen == 32

\* The most filler bytes a string starts with
MaxFill == 34

\* The most characters that follow the filler
MaxTail == 2

\* The UTF-8 bytes of the characters strings are made of: 'a', NUL and the
\* two-byte U+00E9
Utf8(c) ==
    CASE c = "a" -> <<97>>
      [] c = "nul" -> <<0>>
      [] c = "e_acute" -> <<195, 169>>

Chars == {"a", "nul", "e_acute"}

\* The replacement character U+FFFD in UTF-8
Replacement == <<239, 191, 189>>

RECURSIVE Utf8All(_)
Utf8All(cs) == IF cs = <<>> THEN <<>> ELSE Utf8(Head(cs)) \o Utf8All(Tail(cs))

\* s.as_bytes() of the strings given to from_str: 'b' bytes and then up to
\* MaxTail characters
Strings ==
    {[i \in 1..n |-> 98] \o Utf8All(cs) :
        n \in 0..MaxFill,
        cs \in UNION {[1..k -> Chars] : k \in 0..MaxTail}}

\* ServiceName::default()
Default == [i \in 1..NameLen |-> 0]

\* ServiceName::from_str(s)
from_str_tail(s) ==
    IF Len(s) > NameLen
    THEN [ok |-> TRUE, name |-> SubSeq(s, Len(s) - NameLen + 1, Len(s))]
    ELSE [ok |-> TRUE, name |-> [i \in 1..NameLen |-> IF i <= Len(s) THEN s[i] ELSE 0]]

from_str(s) ==
    IF Len(s) > NameLen
    THEN [ok |-> TRUE, name |-> [i \in 1..NameLen |-> s[i]]]
    ELSE [ok |-> TRUE,
          name |-> [i \in 1..NameLen |-> IF i <= Len(s) THEN s[i] ELSE Default[i]]]

\* String::from_utf8_lossy(bytes) on bytes of the characters above: a byte
\* below 128 is a character, 195 with a continuation byte after it is one,
\* and any other byte becomes U+FFFD
RECURSIVE from_utf8_lossy(_)
from_utf8_lossy(bytes) ==
    IF bytes = <<>> THEN <<>>
    ELSE IF Head(bytes) < 128
    THEN <<Head(bytes)>> \o from_utf8_lossy(Tail(bytes))
    ELSE IF Head(bytes) = 195 /\ Len(bytes) >= 2 /\ bytes[2] \in 128..191
    THEN <<bytes[1], bytes[2]>> \o from_utf8_lossy(Tail(Tail(bytes)))
    ELSE Replacement \o from_utf8_lossy(Tail(bytes))

\* Display for ServiceName, not alternate: f.write_str(from_utf8_lossy(&self.0))
display(name) == from_utf8_lossy(name)

\* ServiceName::from_str(s) and the default display of its result
parse_and_display ==
    /\ snOp = "none"
    /\ snName' = from_str(snIn)
    /\ snShown' = display(from_str(snIn).name)
    /\ snOp' = "done"
    /\ UNCHANGED <<snIn, notSn>>

(***************************************************************************)
(* Peer supervisor in listen mode (src/peer/supervisor.rs)                 *)
(*                                                                         *)
(* The process that calls spawner() is the parent.  One iteration of its   *)
(* loop (accept, set params.remote_socket, clone, spawn or fork, push) is  *)
(* one step: nothing in it waits for a child.  A child is the thread or    *)
(* the forked process that runs the `init` closure.                        *)
(***************************************************************************)

\* Connections accepted over a run
MaxConns == 3

\* Remote socket addresses of incoming connections
Remotes == {"r1", "r2"}

\* InetSocketAddr::default(), the remote_socket of RuntimeParams::with
DefaultSocket == "0.0.0.0:0"

\* What runtime(connection, params) may return
RuntimeResults == {Ok, [ok |-> FALSE, err |-> "peer"]}

\* run(), the Listen arm: the parameters spawner() is called with
listen_params == [connect |-> FALSE, remote_socket |-> DefaultSocket]

\* spawner, `params.remote_socket = remote_socket_addr.into()` and
\* `params.clone()`: the parent's parameters and the child's copy
child_params_stale(p, remote) == p

child_params(p, remote) == [p EXCEPT !.remote_socket = remote]

\* spawner, one iteration of the loop in the parent
\*   outcome  "ok"; or accept() fails (expect: panic); or the thread cannot
\*            be spawned (`?`: spawner returns the I/O error) or fork() fails
\*            (expect: panic)
spawner(remote, outcome) ==
    /\ svPc = "listen"
    /\ Len(svAccepted) < MaxConns
    /\ IF outcome = "accept_fail"
       THEN /\ svPc' = "panicked"
            /\ UNCHANGED <<params, svAccepted, handlers, children>>
       ELSE /\ svAccepted' = Append(svAccepted, remote)
            /\ params' = child_params(params, remote)
            /\ IF outcome = "spawn_fail"
               THEN /\ svPc' = IF threaded THEN "returned_err" ELSE "panicked"
                    /\ UNCHANGED <<handlers, children>>
               ELSE /\ svPc' = "listen"
                    /\ handlers' = Append(handlers,
                          [kind |-> IF threaded THEN "Thread" ELSE "Process",
                           child |-> Len(children) + 1])
                    /\ children' = Append(children,
                          [kind |-> IF threaded THEN "Thread" ELSE "Process",
                           params |-> child_params(params, remote),
                           peer |-> remote,
                           pc |-> "init"])
    /\ UNCHANGED <<threaded, outbound, notSv>>

\* The child, the first part of `init`: the session with the remote is set
\* up on the accepted stream (expect: a failure panics the child)
child_init(i, session_ok) ==
    /\ i \in 1..Len(children)
    /\ children[i].pc = "init"
    /\ children' = [children EXCEPT ![i].pc =
                        IF session_ok THEN "runtime" ELSE "panicked"]
    /\ UNCHANGED <<threaded, svPc, params, svAccepted, handlers, outbound, notSv>>

\* The child, `runtime(connection, child_params)` returns.  In a thread its
\* result is the thread's value; in a forked process `init()?` returns an
\* Err from spawner and an Ok reaches unreachable!()
child_runtime(i, result) ==
    /\ i \in 1..Len(children)
    /\ children[i].pc = "runtime"
    /\ children' = [children EXCEPT ![i].pc =
                        IF children[i].kind = "Thread" THEN "ended"
                        ELSE IF result.ok THEN "panicked" ELSE "returned_err"]
    /\ UNCHANGED <<threaded, svPc, params, svAccepted, handlers, outbound, notSv>>

\* NodeAddr values given to PeerSocket::Connect: a node id and an address
NodeAddrs == [id : {"n1", "n2", "n3"}, addr : Remotes]

\* enum FramingProtocol
FramingProtocols == {"Brontide", "Brontozaur"}

\* RuntimeParams::with(config, local_id, framing_protocol)
RuntimeParams_with(framing_protocol) ==
    [framing_protocol |-> framing_protocol, connect |-> FALSE,
     remote_id |-> None, remote_socket |-> DefaultSocket]

\* Nothing done in Connect mode
NoOutbound ==
    [tried |-> <<>>, sessions |-> <<>>, runtime |-> <<>>, result |-> [ok |-> FALSE]]

\* run(), the Connect arm: params.connect = true, params.remote_id =
\* Some(node_addr.id), params.remote_socket = node_addr.addr
connect_params(p, node_addr) ==
    [p EXCEPT !.connect = TRUE, !.remote_id = node_addr.id,
              !.remote_socket = node_addr.addr]

\* What PeerConnection::connect_brontide / connect_brontozaur returns: the
\* connection, or an error of the transport
ConnectResults == {Ok, [ok |-> FALSE, err |-> "io"], [ok |-> FALSE, err |-> "handshake"]}

\* run(), the Connect arm up to the call of runtime: the parameters are set,
\* the connection is opened with the framing protocol (`?`: a failure is
\* returned from run) and runtime(connection, params) is entered
connect(node_addr, connected) ==
    /\ svPc = "connect"
    /\ params' = connect_params(params, node_addr)
    /\ IF connected.ok
       THEN /\ svPc' = "runtime"
            /\ outbound' = [tried |-> <<node_addr>>,
                            sessions |-> <<[to |-> node_addr,
                                            framing |-> params.framing_protocol]>>,
                            runtime |-> <<connect_params(params, node_addr)>>,
                            result |-> NoOutbound.result]
       ELSE /\ svPc' = "returned_err"
            /\ outbound' = [tried |-> <<node_addr>>, sessions |-> <<>>,
                            runtime |-> <<>>, result |-> connected]
    /\ UNCHANGED <<threaded, svAccepted, handlers, children, notSv>>

\* run(), `runtime(connection, params)?` returns: an Err is returned from
\* run, an Ok falls through to unreachable!()
run_end_returning_ok(result) == IF result.ok THEN "returned_ok" ELSE "returned_err"

run_end(result) == IF result.ok THEN "panicked" ELSE "returned_err"

runtime_returns(result) ==
    /\ svPc = "runtime"
    /\ svPc' = run_end(result)
    /\ outbound' = [outbound EXCEPT !.result = result]
    /\ UNCHANGED <<threaded, params, svAccepted, handlers, children, notSv>>

(***************************************************************************)
(* Initial states and specifications                                       *)
(***************************************************************************)

\* The ESB variables of the run loop before try_run_loop is entered
EsbLoopIdle ==
    /\ pollOrder = <<"ctl", "msg">>
    /\ inbox = [b \in BusIds |-> <<>>]
    /\ ready = <<>>
    /\ pendingErr = NoErr
    /\ lastDispatch = NoDispatch
    /\ arrived = 0
    /\ consumed = [b \in BusIds |-> 0]
    /\ dispatched = [b \in BusIds |-> <<>>]

\* Controller::with on an empty map: EndpointList::new(), no bus added yet
EsbInit ==
    /\ identity \in Addr
    /\ endpoints = [b \in BusIds |-> Absent]
    /\ lastOp = NoOp
    /\ handed = <<>>
    /\ loopPc = "setup"
    /\ EsbLoopIdle

\* RpcClient::with and RpcServer::with: sessions open, nothing sent
RpcInit ==
    /\ cliPc = [e \in RpcEndpoints |-> "idle"]
    /\ cliAwait = [e \in RpcEndpoints |-> FALSE]
    /\ cliResult = [e \in RpcEndpoints |-> NoResult]
    /\ reqChan = [e \in RpcEndpoints |-> <<>>]
    /\ repChan = [e \in RpcEndpoints |-> <<>>]
    /\ srvPc = "poll"
    /\ srvReady = <<>>
    /\ srvErr = NoErr
    /\ srvLast = NoServed
    /\ srvMustReply = [e \in RpcEndpoints |-> FALSE]
    /\ nHandled = [e \in RpcEndpoints |-> 0]
    /\ nReplyCalls = [e \in RpcEndpoints |-> 0]
    /\ nReplies = [e \in RpcEndpoints |-> 0]
    /\ nDelivered = [e \in RpcEndpoints |-> 0]
    /\ nRequests = 0
    /\ cliCalls = [e \in RpcEndpoints |-> NoCalls]

\* UThread::new(service, ticks): an empty channel, the worker in its loop;
\* the service's monitor() and the build's "log" feature are among the
\* given ones
UtInitFull(tick_set, monitor_set, log_set) ==
    /\ ticks \in tick_set
    /\ monitor \in monitor_set
    /\ logFeature \in log_set
    /\ clones = 0
    /\ chan = <<>>
    /\ rxAlive = TRUE
    /\ workerPc = "loop"
    /\ handlePc = "alive"
    /\ threadTaken = FALSE
    /\ terminateCalls = 0
    /\ processed = <<>>
    /\ accepted = <<>>
    /\ tickCalls = 0
    /\ tickAt = -1
    /\ nextId = 1
    /\ lastSend = NoSend
    /\ endedBy = NotEnded
    /\ breakAt = 0
    /\ tickDue = FALSE
    /\ overdue = 0
    /\ reports = 0
    /\ lastStep = NoStep
    /\ monChan = <<>>

\* A service with the default monitor() (None)
UtInitWith(tick_set) == UtInitFull(tick_set, {"absent"}, {TRUE})

\* No daemon launched yet
LnInit ==
    /\ lnHandle = [d \in DaemonNames |-> NoHandle]
    /\ lnEnd = [d \in DaemonNames |-> NoEnd]
    /\ lnJoin = [d \in DaemonNames |-> NoJoin]

\* No conversion made yet, on a fixed input
FcIdle ==
    /\ fcIn = [is |-> "code", code |-> 0]
    /\ fcMid = 0
    /\ fcOut = 0
    /\ fcOp = "none"

\* No name parsed yet, on a fixed input
SnIdle ==
    /\ snIn = <<>>
    /\ snName = [ok |-> FALSE]
    /\ snShown = <<>>
    /\ snOp = "none"

\* spawner() not called yet: the parameters run() prepared, nothing accepted
SvIdleWith(threaded_set) ==
    /\ threaded \in threaded_set
    /\ svPc = "listen"
    /\ params = listen_params
    /\ svAccepted = <<>>
    /\ handlers = <<>>
    /\ children = <<>>
    /\ outbound = NoOutbound

SvIdle == SvIdleWith({TRUE})

\* run() called with PeerSocket::Connect, at the head of that arm: params is
\* what RuntimeParams::with built
SvConnectWith(threaded_set) ==
    /\ threaded \in threaded_set
    /\ svPc = "connect"
    /\ \E fp \in FramingProtocols : params = RuntimeParams_with(fp)
    /\ svAccepted = <<>>
    /\ handlers = <<>>
    /\ children = <<>>
    /\ outbound = NoOutbound

\* The services of one bus, each with the endpoint table add_service_bus
\* built from its configuration; nothing sent yet
NetInitWith(services, configs) ==
    /\ netEps = [n \in Addr |->
                    [b \in BusIds |-> IF n \in services /\ b = RelayBus
                                      THEN new_endpoint(configs[n], n)
                                      ELSE Absent]]
    /\ netInbox = [n \in Addr |-> <<>>]
    /\ netSent = <<>>
    /\ netHandled = [n \in Addr |-> <<>>]
    /\ netRelayed = [n \in Addr |-> <<>>]
    /\ netLost = <<>>
    /\ netPc = [n \in Addr |-> "running"]

\* The configuration every service of the shared bus passes to
\* add_service_bus: all of them name B as the router
RelayConfigs == [n \in Addr |-> with_addr("B")]

\* No bus between several controllers
NetIdle == NetInitWith({}, RelayConfigs)

AuxInit == LnInit /\ FcIdle /\ SnIdle /\ SvIdle /\ NetIdle

\* The ESB controller used through its API
Init == EsbInit /\ RpcInit /\ UtInitWith({FALSE}) /\ AuxInit

Next ==
    \/ \E id \in BusIds : \E config \in Configs(id) : add_service_bus(id, config)
    \/ \E b \in BusIds, s \in Addr, d \in Addr, r \in Requests, p \in Peers :
          send_to(b, s, d, r, p)
    \/ \E b \in BusIds, d \in Addr, r \in Requests, p \in Peers :
          Controller_send_to(b, d, r, p)

Spec == Init /\ [][Next]_vars

\* The bus maps Controller::with is given before try_run_loop is entered
RunConfigs ==
    {[b \in BusIds |-> IF b = "ctl" THEN with_addr(r) ELSE c] :
        r \in {None, "B"}, c \in {Absent, with_addr(None)}}

\* Controller::with(service_bus, handler): every configured bus added
EsbLoopInit(pc) ==
    /\ identity \in {"B", "C"}
    /\ \E cfg \in RunConfigs :
          endpoints = [b \in BusIds |-> IF cfg[b] = Absent THEN Absent
                                        ELSE new_endpoint(cfg[b], identity)]
    /\ lastOp = NoOp
    /\ handed = <<>>
    /\ loopPc = pc
    /\ pollOrder \in {<<"ctl", "msg">>, <<"msg", "ctl">>}
    /\ endpoints["msg"] = Absent => pollOrder = <<"ctl", "msg">>
    /\ inbox = [b \in BusIds |-> <<>>]
    /\ ready = <<>>
    /\ pendingErr = NoErr
    /\ lastDispatch = NoDispatch
    /\ arrived = 0
    /\ consumed = [b \in BusIds |-> 0]
    /\ dispatched = [b \in BusIds |-> <<>>]

\* the controller about to enter try_run_loop
EsbRunInit == EsbLoopInit("start")

\* the controller built and used through recv_poll, never entering try_run_loop
EsbPollInit == EsbLoopInit("api")

InitRun == EsbRunInit /\ RpcInit /\ UtInitWith({FALSE}) /\ AuxInit

NextRun ==
    \/ \E b \in BusIds, f \in ArrivingFrames : net_arrive(b, f)
    \/ \E ok \in BOOLEAN : on_ready(ok)
    \/ \E ok \in BOOLEAN : poll(ok)
    \/ \E recv_res \in {"ok", "fail_keep", "fail_drop"}, h \in BOOLEAN, ok \in BOOLEAN :
          run_bus(recv_res, h, ok)
    \/ \E ok \in BOOLEAN : handle_err(ok)

SpecRun == InitRun /\ [][NextRun]_vars

(***************************************************************************)
(* The controller polled by its owner through recv_poll.                   *)
(***************************************************************************)
InitPoll == EsbPollInit /\ RpcInit /\ UtInitWith({FALSE}) /\ AuxInit

NextPoll ==
    \/ \E b \in BusIds, f \in ArrivingFrames : net_arrive(b, f)
    \/ \E ok \in BOOLEAN, recvs \in [BusIds -> RecvOutcomes] : recv_poll(ok, recvs)

SpecPoll == InitPoll /\ [][NextPoll]_vars

\* One RPC server and its clients
InitRpc == EsbInit /\ identity = "A" /\ RpcInit /\ UtInitWith({FALSE}) /\ AuxInit

NextRpc ==
    \/ \E c \in RpcEndpoints, e \in RpcEndpoints, q \in RpcRequests, ok \in BOOLEAN :
          request(c, e, q, ok)
    \/ \E c \in RpcEndpoints, ok \in BOOLEAN : request_recv(c, ok)
    \/ \E ok \in BOOLEAN : rpc_poll(ok)
    \/ \E recv_ok \in BOOLEAN, h \in HandlerResults, ok \in BOOLEAN :
          rpc_serve(recv_ok, h, ok)
    \/ \E ok \in BOOLEAN : rpc_handle_err(ok)

SpecRpc == InitRpc /\ [][NextRpc]_vars

\* One UThread, with or without a tick interval
InitUThread == EsbInit /\ identity = "A" /\ RpcInit /\ UtInitWith(BOOLEAN) /\ AuxInit

NextUThread ==
    \/ \E r \in ProcessResults, ok \in BOOLEAN : worker_step(r, ok)
    \/ elapse
    \/ worker_exit
    \/ sender
    \/ drop_sender
    \/ \E op \in SendOps : send(op)
    \/ join
    \/ join_return
    \/ drop
    \/ drop_join

SpecUThread == InitUThread /\ [][NextUThread]_vars

\* One UThread whose service has any monitor(), in a build with or without
\* the "log" feature; its senders use send and the handle is only dropped
InitUReport ==
    /\ EsbInit /\ identity = "A" /\ RpcInit /\ AuxInit
    /\ UtInitFull(BOOLEAN, Monitors, BOOLEAN)

NextUReport ==
    \/ \E r \in ProcessResults, ok \in BOOLEAN : worker_step(r, ok)
    \/ elapse
    \/ worker_exit
    \/ sender
    \/ send("send")
    \/ drop
    \/ drop_join

SpecUReport == InitUReport /\ [][NextUReport]_vars

\* Daemons launched and joined
InitLauncher ==
    /\ EsbInit /\ identity = "A" /\ RpcInit /\ UtInitWith({FALSE})
    /\ LnInit /\ FcIdle /\ SnIdle /\ SvIdle /\ NetIdle

NextLauncher ==
    \/ \E d \in DaemonNames, ok \in BOOLEAN : thread_daemon(d, ok)
    \/ \E d \in DaemonNames, f \in {"none", "current_exe", "cmd_args", "spawn"} :
          exec_daemon(d, f)
    \/ \E d \in DaemonNames, o \in RunOutcomes, w \in WaitResults : daemon_end(d, o, w)
    \/ \E d \in DaemonNames : daemon_join(d)

SpecLauncher == InitLauncher /\ [][NextLauncher]_vars

\* Every failure code and every 16-bit code, converted there and back
InitCodes ==
    /\ EsbInit /\ identity = "A" /\ RpcInit /\ UtInitWith({FALSE}) /\ LnInit
    /\ SnIdle /\ SvIdle /\ NetIdle
    /\ fcIn \in {[is |-> "code", code |-> c] : c \in U16}
                \cup {[is |-> "value", value |-> Other(e)] : e \in U16}
                \cup {[is |-> "value", value |-> Reserved(k)] : k \in ReservedVariants}
    /\ fcMid = 0
    /\ fcOut = 0
    /\ fcOp = "none"

NextCodes ==
    \/ encode_decode
    \/ decode_encode

SpecCodes == InitCodes /\ [][NextCodes]_vars

\* Service names parsed from strings and displayed
InitNames ==
    /\ EsbInit /\ identity = "A" /\ RpcInit /\ UtInitWith({FALSE}) /\ LnInit
    /\ FcIdle /\ SvIdle /\ NetIdle
    /\ snIn \in Strings
    /\ snName = [ok |-> FALSE]
    /\ snShown = <<>>
    /\ snOp = "none"

NextNames == parse_and_display

SpecNames == InitNames /\ [][NextNames]_vars

\* The peer supervisor listening, threaded or forking
InitSupervisor ==
    /\ EsbInit /\ identity = "A" /\ RpcInit /\ UtInitWith({FALSE})
    /\ LnInit /\ FcIdle /\ SnIdle /\ NetIdle
    /\ SvIdleWith(BOOLEAN)

NextSupervisor ==
    \/ \E r \in Remotes, o \in {"ok", "accept_fail", "spawn_fail"} : spawner(r, o)
    \/ \E i \in 1..MaxConns, ok \in BOOLEAN : child_init(i, ok)
    \/ \E i \in 1..MaxConns, res \in RuntimeResults : child_runtime(i, res)

SpecSupervisor == InitSupervisor /\ [][NextSupervisor]_vars

(***************************************************************************)
(* The peer supervisor run with PeerSocket::Connect.                       *)
(***************************************************************************)
InitConnect ==
    /\ EsbInit /\ identity = "A" /\ RpcInit /\ UtInitWith({FALSE})
    /\ LnInit /\ FcIdle /\ SnIdle /\ NetIdle
    /\ SvConnectWith(BOOLEAN)

NextConnect ==
    \/ \E a \in NodeAddrs, res \in ConnectResults : connect(a, res)
    \/ \E res \in RuntimeResults : runtime_returns(res)

SpecConnect == InitConnect /\ [][NextConnect]_vars

(***************************************************************************)
(* Several controllers on one bus: each service runs its own Controller,   *)
(* and the transport delivers a frame to the socket of the service named   *)
(* as the frame's next hop.                                                *)
(***************************************************************************)

\* Controller::send_to calls made on the bus
MaxSends == 2

\* The services whose applications call Controller::send_to; B only routes
\* and handles
Senders == {"A", "C"}

\* The transport: a frame the session accepted for a connected peer arrives
\* at the socket of its next hop
deliver(inb, frames, peer) ==
    IF frames # <<>> /\ peer = "connected"
    THEN [inb EXCEPT ![frames[1].via] = Append(@, frames[1])]
    ELSE inb

\* Controller::send_to(bus, dest, request) of service n: its identity is the
\* source; the frame goes to the next hop Endpoint::send_to chose
net_send(n, dest, req, peer) ==
    /\ Len(netSent) < MaxSends
    /\ LET r == EndpointList_send_to(netEps[n], RelayBus, n, dest, req,
                                     transport_accepts(netEps[n], RelayBus, peer))
       IN  /\ netSent' = Append(netSent,
                                [source |-> n, dest |-> dest, request |-> req,
                                 frames |-> r.frames, result |-> r.result])
           /\ netInbox' = IF r.result.ok THEN deliver(netInbox, r.frames, peer)
                          ELSE netInbox
           /\ netLost' = IF r.result.ok /\ peer # "connected"
                         THEN Append(netLost, [at |-> n, why |-> "dropped",
                                               frame |-> r.frames[1]])
                         ELSE netLost
    /\ UNCHANGED <<netEps, netHandled, netRelayed, netPc, notNet>>

\* try_run_loop of a service after one run(): an error is passed to
\* handle_err, and the `?` on its result ends the loop
after_handle_err(err, handle_err_ok) ==
    IF err # NoErr /\ ~handle_err_ok THEN "returned" ELSE "running"

\* Controller::run of service n for the frame at the head of its socket,
\* and try_run_loop after it: an error goes to handle_err, and the loop
\* returns when handle_err fails
net_run(n, rcv, handler_ok, peer, handle_err_ok) ==
    /\ netPc[n] = "running"
    /\ netInbox[n] # <<>>
    /\ LET f    == socket_recv(netInbox[n])
           r    == run_bus_body(netEps[n], n, RelayBus, f.frame, rcv, handler_ok,
                                transport_accepts(netEps[n], RelayBus, peer))
           kept == IF r.consumed THEN f.rest ELSE netInbox[n]
           passed == r.how = "relay" /\ r.err = NoErr
       IN  /\ netInbox' = IF passed
                          THEN deliver([netInbox EXCEPT ![n] = kept], r.relayed, peer)
                          ELSE [netInbox EXCEPT ![n] = kept]
           /\ netHandled' = [netHandled EXCEPT ![n] = @ \o r.handle_calls]
           /\ netRelayed' = [netRelayed EXCEPT ![n] = @ \o r.relayed]
           /\ netLost' =
                 IF rcv = "fail_drop"
                 THEN Append(netLost, [at |-> n, why |-> "recv", frame |-> f.frame])
                 ELSE IF r.how = "relay" /\ r.err # NoErr
                 THEN Append(netLost, [at |-> n, why |-> "send",
                                       frame |-> r.relayed[1]])
                 ELSE IF passed /\ peer # "connected"
                 THEN Append(netLost, [at |-> n, why |-> "dropped",
                                       frame |-> r.relayed[1]])
                 ELSE netLost
           /\ netPc' = [netPc EXCEPT ![n] = after_handle_err(r.err, handle_err_ok)]
    /\ UNCHANGED <<netEps, netSent, notNet>>

\* What one run() of a service meets: the outcome of the receive and, when
\* the frame was received, of the handler or of the relay's send; the result
\* of handle_err when there is an error to pass to it
RunInputs ==
    {[recv |-> "ok", handler |-> TRUE, peer |-> "connected", handle_err |-> TRUE]}
    \cup [recv : {"ok"}, handler : {FALSE}, peer : Peers, handle_err : BOOLEAN]
    \cup [recv : {"ok"}, handler : {TRUE}, peer : Peers \ {"connected"},
          handle_err : BOOLEAN]
    \cup [recv : RecvOutcomes \ {"ok"}, handler : {TRUE}, peer : {"connected"},
          handle_err : BOOLEAN]

\* Services A, B and C on one bus, all configured with router B
InitRelay ==
    /\ EsbInit /\ identity = "A" /\ RpcInit /\ UtInitWith({FALSE})
    /\ LnInit /\ FcIdle /\ SnIdle /\ SvIdle
    /\ NetInitWith(Addr, RelayConfigs)

NextRelay ==
    \/ \E n \in Senders : \E d \in Addr \ {n}, r \in Requests, p \in Peers :
          net_send(n, d, r, p)
    \/ \E n \in Addr, o \in RunInputs : net_run(n, o.recv, o.handler, o.peer, o.handle_err)

SpecRelay == InitRelay /\ [][NextRelay]_vars

(***************************************************************************)
(* Properties of the ESB controller                                        *)
(***************************************************************************)

\* C1: EndpointList::send_to(bus, S, D, request) on a bus of the table whose
\* endpoint stores router R passes one frame to the session, with src = S and
\* dst = D, and via = D when R is None, D when R = Some(S), and r when
\* R = Some(r) with r different from S.
C1_SendToRouting ==
    (lastOp.op = "send_to" /\ endpoints[lastOp.bus].present) =>
        LET R == endpoints[lastOp.bus].router
            S == lastOp.source
            D == lastOp.dest
        IN  /\ Len(handed) = 1
            /\ handed[1].src = S
            /\ handed[1].dst = D
            /\ R = None => handed[1].via = D
            /\ R = S => handed[1].via = D
            /\ (R # None /\ R # S) => handed[1].via = R

\* A send through a router that is neither the source nor the destination
C1_Witness ==
    /\ lastOp.op = "send_to"
    /\ endpoints[lastOp.bus].present
    /\ endpoints[lastOp.bus].router \notin {None, lastOp.source, lastOp.dest}
    /\ Len(handed) = 1
    /\ handed[1].via = endpoints[lastOp.bus].router

\* C3: on a service whose identity is A and whose bus was configured with
\* router Some(B), B different from A, Controller::send_to(bus, C, req) passes
\* exactly one frame to the session: src = A, via = B, dst = C, payload the
\* serialized req; for every destination C.  The transport accepts that frame
\* exactly when the call returns Ok.
C3_SendViaRouter ==
    (/\ lastOp.op = "Controller_send_to"
     /\ endpoints[lastOp.bus].present
     /\ endpoints[lastOp.bus].configured \notin {None, identity}) =>
        /\ handed = <<[src |-> identity,
                       via |-> endpoints[lastOp.bus].configured,
                       dst |-> lastOp.dest,
                       msg |-> serialize(lastOp.request)]>>
        /\ lastOp.result.ok \/ lastOp.result.err = "Send"

\* A.send_to(ctl, C, req) with router Some(B), accepted by the transport
C3_Witness ==
    /\ identity = "A"
    /\ lastOp.op = "Controller_send_to"
    /\ lastOp.bus = "ctl"
    /\ lastOp.dest = "C"
    /\ lastOp.result.ok
    /\ endpoints["ctl"].present
    /\ endpoints["ctl"].configured = "B"
    /\ handed = <<[src |-> "A", via |-> "B", dst |-> "C",
                   msg |-> serialize(lastOp.request)]>>

\* C4: every endpoint add_service_bus stored has router None when the
\* configured router equals the handler's identity and the configured router
\* otherwise; so no stored router equals that identity.
C4_RouterNormalized ==
    \A b \in BusIds :
        endpoints[b].present =>
            /\ endpoints[b].configured = identity => endpoints[b].router = None
            /\ endpoints[b].configured # identity =>
                   endpoints[b].router = endpoints[b].configured
            /\ endpoints[b].router # identity

\* A bus configured with the service's own address as router
C4_Witness ==
    \E b \in BusIds :
        /\ endpoints[b].present
        /\ lastOp.op = "add_service_bus"
        /\ lastOp.bus = b
        /\ lastOp.config.router = identity
        /\ endpoints[b].router = None

\* C2: in the run loop every frame that was received and decoded is either
\* passed to handler.handle(endpoints, bus, src, request), when its dst is
\* the handler's identity, and then not relayed; or relayed by
\* endpoints.send_to on the same bus with the frame's own src and dst, and
\* then not passed to handler.handle.
C2_HandleOrRelay ==
    (lastDispatch.how # "none" /\ lastDispatch.did.decoded) =>
        LET f == lastDispatch.frame
            d == lastDispatch.did
        IN  IF f.dst = identity
            THEN /\ d.handle_calls =
                        <<[bus_id |-> lastDispatch.bus, source |-> f.src,
                           request |-> unmarshall(f.msg).request]>>
                 /\ d.relayed = <<>>
                 /\ handed = <<>>
            ELSE /\ d.handle_calls = <<>>
                 /\ Len(d.relayed) = 1
                 /\ handed = d.relayed
                 /\ d.relayed[1].src = f.src
                 /\ d.relayed[1].dst = f.dst
                 /\ d.relayed[1].msg = f.msg
                 /\ d.relayed[1].via =
                        select_router(endpoints[lastDispatch.bus].router, f.src, f.dst)

\* A frame of another source for another destination was relayed
C2_Witness ==
    /\ lastDispatch.how = "relay"
    /\ lastDispatch.frame.src # identity
    /\ lastDispatch.frame.dst # identity
    /\ Len(handed) = 1
    /\ handed[1].src = lastDispatch.frame.src


(***************************************************************************)
(* Properties of the RPC client and server                                 *)
(***************************************************************************)

\* C5 as stated: for every request passed to the handler, exactly one reply
\* goes out on the same endpoint session, so that the client observes exactly
\* one reply per request.
C5_ExactlyOneReply ==
    \A e \in RpcEndpoints : nReplies[e] = nHandled[e]

\* C5 as amended: for every request the server received and decoded it makes
\* exactly one send_raw_message call on the same endpoint session, with the
\* handler's reply when handle returned Ok and with the failure reply made of
\* the error when it returned Err; that reply goes out on the session when
\* the send succeeds and no reply goes out when the send fails, and the
\* client never receives more replies than went out.
C5_OneReplyCall ==
    /\ \A e \in RpcEndpoints :
          /\ nReplyCalls[e] = nHandled[e]
          /\ nReplies[e] <= nReplyCalls[e]
          /\ nDelivered[e] <= nReplies[e]
          /\ nDelivered[e] + Len(repChan[e]) = nReplies[e]
    /\ srvLast.how = "handled" =>
          LET d == srvLast.did
          IN  /\ d.handled.ok => d.send_calls = <<d.handled.reply>>
              /\ ~d.handled.ok =>
                    d.send_calls = <<FailureReply([code |-> "Runtime",
                                                   info |-> d.handled.err])>>
              /\ d.err = NoErr => d.sent = d.send_calls
              /\ d.err # NoErr => d.sent = <<>>

\* The handler returned an error, the failure reply went out on the
\* endpoint's session and the client of that endpoint received it
C5_Witness ==
    /\ srvLast.how = "handled"
    /\ ~srvLast.did.handled.ok
    /\ srvLast.did.err = NoErr
    /\ nHandled[srvLast.endpoint] = 1
    /\ nDelivered[srvLast.endpoint] = 1
    /\ cliResult[srvLast.endpoint].ok

\* C6: whenever the reply RpcClient::request decoded is the failure variant,
\* request returns Err(ServerFailure(f)) and never Ok.
C6_FailureIsErr ==
    \A c \in RpcEndpoints :
        cliResult[c].ok => cliResult[c].reply.kind # "Failure"


(***************************************************************************)
(* Properties of UThread                                                   *)
(***************************************************************************)

\* The elements of a sequence, as a set
Range(q) == {q[i] : i \in 1..Len(q)}

\* The ids of the messages a channel holds, oldest first
MsgIds(ch) ==
    LET msgs == SelectSeq(ch, LAMBDA e : e.kind = "Msg")
    IN  [i \in 1..Len(msgs) |-> msgs[i].id]

\* C7: when Drop for UThread is over, terminate() was called exactly once
\* and the worker thread has ended (Drop returns only after joining it); and
\* when process() returned Break(0), terminate() was called exactly once and
\* the worker left its loop; whatever was queued when the handle was dropped.
C7_DropTerminatesOnce ==
    /\ handlePc \in {"dropped", "panicked"} =>
          terminateCalls = 1 /\ workerPc = "exited"
    /\ (endedBy.by = "Break" /\ endedBy.code = "Break0") =>
          terminateCalls = 1 /\ workerPc \in {"finished", "exited"}

\* The handle was dropped with messages queued: they were processed, the
\* worker received Terminate, and Drop joined it
C7_Witness ==
    /\ handlePc = "dropped"
    /\ endedBy.by = "Terminate"
    /\ Len(processed) >= 2
    /\ terminateCalls = 1

\* C8: once the worker's event loop has ended, terminate() was called
\* exactly once, whatever ended the loop; and never before.
C8_TerminateOnceAtLoopEnd ==
    /\ workerPc \in {"finished", "exited"} => terminateCalls = 1
    /\ workerPc = "loop" => terminateCalls = 0

\* A loop ended by Break(2)
C8_Witness ==
    /\ workerPc = "exited"
    /\ endedBy.by = "Break"
    /\ endedBy.code = "Break2"
    /\ terminateCalls = 1

\* C9: when process() returns Break on a message the worker leaves its loop
\* and calls process() no more; and a USender::send(m) made after the worker
\* thread has ended returns the disconnected error with m in it, and m is
\* never passed to process().
C9_SendAfterExitFails ==
    /\ breakAt # 0 => workerPc # "loop" /\ Len(processed) = breakAt
    /\ (lastSend.id # 0 /\ lastSend.exited) =>
          /\ lastSend.result =
                 [ok |-> FALSE, err |-> "Disconnected", msg |-> lastSend.id]
          /\ lastSend.id \notin Range(accepted)
    /\ Range(processed) \subseteq Range(accepted)

\* process() returned Break(2) on the first message and the second send,
\* made after the worker ended, failed
C9_Witness ==
    /\ breakAt = 1
    /\ endedBy.by = "Break"
    /\ endedBy.code = "Break2"
    /\ lastSend.id = 2
    /\ lastSend.exited
    /\ ~lastSend.result.ok

\* C10: with a tick interval, while the worker's loop runs the messages
\* passed to process() followed by the messages still queued are the
\* messages sent, in the order sent: none is dropped, repeated or reordered,
\* whatever tick() calls come in between.
C10_InOrderOnce ==
    ticks =>
        /\ workerPc = "loop" => processed \o MsgIds(chan) = accepted
        /\ Len(processed) <= Len(accepted)
        /\ \A i \in 1..Len(processed) : processed[i] = accepted[i]

\* Three messages processed in order, with a tick() between the first and
\* the last
C10_Witness ==
    /\ ticks
    /\ tickCalls >= 1
    /\ tickAt = 1
    /\ processed = <<1, 2, 3>>
    /\ accepted = <<1, 2, 3>>


\* C11: with a tick interval, once the interval has elapsed since the last
\* tick() the worker makes at most one more process() call before it calls
\* tick(): a queue that stays non-empty cannot postpone tick() further.
C11_TickNotStarved ==
    ticks => overdue <= 1


(***************************************************************************)
(* Properties of the launcher                                              *)
(***************************************************************************)

\* C12: join on a thread daemon whose run_impl returned Err(e) returns
\* Err(ThreadAborted(name, e)); join on a process daemon whose wait() gave a
\* non-zero status s returns Err(ProcessAborted(name, s)), and Ok(()) for
\* status 0.
C12_JoinReportsEnd ==
    \A d \in DaemonNames :
        lnJoin[d] # NoJoin =>
            /\ (lnEnd[d].how = "Thread" /\ lnEnd[d].run.how = "Err") =>
                   lnJoin[d] = [ok |-> FALSE,
                                err |-> [kind |-> "ThreadAborted", name |-> d,
                                         err |-> lnEnd[d].run.err]]
            /\ (lnEnd[d].how = "Process" /\ lnEnd[d].end.ok) =>
                   lnJoin[d] = IF lnEnd[d].end.status = 0 THEN Ok
                               ELSE [ok |-> FALSE,
                                     err |-> [kind |-> "ProcessAborted", name |-> d,
                                              status |-> lnEnd[d].end.status]]

\* One thread daemon joined after run_impl returned Err("e2"), one process
\* daemon joined after exit status 1
C12_Witness ==
    /\ lnEnd["d1"].how = "Thread"
    /\ lnEnd["d1"].run = [how |-> "Err", err |-> "e2"]
    /\ lnJoin["d1"].err.kind = "ThreadAborted"
    /\ lnEnd["d2"].how = "Process"
    /\ lnEnd["d2"].end = [ok |-> TRUE, status |-> 1]
    /\ lnJoin["d2"].err.kind = "ProcessAborted"


(***************************************************************************)
(* Properties of the failure codes                                         *)
(***************************************************************************)

\* C13: encoding Other(e) with e <= 0x0FFF and decoding the code gives
\* Other(e) again; encoding a reserved variant and decoding gives the
\* variant again; decoding the code of a reserved variant and encoding gives
\* the code again.
C13_RoundTrip ==
    /\ (fcOp = "encode_decode" /\ fcIn.value.variant = "Other"
            /\ fcIn.value.ext <= ExtMask) => fcOut = fcIn.value
    /\ (fcOp = "encode_decode" /\ fcIn.value.variant \in ReservedVariants) =>
            fcOut = fcIn.value
    /\ (fcOp = "decode_encode"
            /\ fcIn.code \in {PresentationCode, TransportCode, FramingCode,
                              UnexpectedRequestCode, RuntimeCode}) =>
            /\ fcMid.variant \in ReservedVariants
            /\ fcOut = fcIn.code

\* Other(0x0FFF) went through 0x0FFF and came back
C13_Witness ==
    /\ fcOp = "encode_decode"
    /\ fcIn.value = Other(ExtMask)
    /\ fcMid = ExtMask
    /\ fcOut = Other(ExtMask)

\* The band of a 16-bit code: its top 4 bits
band(code) == code \div (ExtMask + 1)

\* The band a failure code belongs to
band_of(value) ==
    IF value.variant = "Other" THEN 0 ELSE band(to_u16(Reserved(value.variant)))

\* C14: Other(ext) encodes to ext masked with 0x0FFF; a code that
\* is none of the five reserved constants decodes to the extension space
\* with the code masked to its low 12 bits; decoding and then encoding gives
\* a code in the band of the decoded variant.
C14_DecodeMasks ==
    /\ (fcOp = "encode_decode" /\ fcIn.value.variant = "Other") =>
            fcMid = and_mask(fcIn.value.ext) /\ fcMid \in 0..ExtMask
    /\ (fcOp = "decode_encode" /\ fcMid.variant = "Other") =>
            fcMid = Other(and_mask(fcIn.code))
    /\ fcOp = "decode_encode" => band(fcOut) = band_of(fcMid)


(***************************************************************************)
(* Properties of ServiceName                                               *)
(***************************************************************************)

\* The first n bytes of a string (the whole string if it is shorter)
FirstBytes(q, n) == SubSeq(q, 1, IF Len(q) < n THEN Len(q) ELSE n)

\* C15: from_str never fails and gives exactly 32 bytes; for an input longer
\* than 32 bytes the result is from_str of its first 32 bytes, which is those
\* bytes; for an input of n <= 32 bytes it is the n bytes followed by 32 - n
\* zero bytes.
C15_TruncateOrPad ==
    snOp = "done" =>
        /\ snName.ok
        /\ Len(snName.name) = NameLen
        /\ Len(snIn) > NameLen =>
              /\ snName = from_str(FirstBytes(snIn, NameLen))
              /\ snName.name = FirstBytes(snIn, NameLen)
        /\ Len(snIn) <= NameLen =>
              \A i \in 1..NameLen :
                  snName.name[i] = IF i <= Len(snIn) THEN snIn[i] ELSE 0

\* A string of 36 bytes whose bytes 35 and 36 differ from its first bytes was
\* cut to its first 32 bytes
C15_Witness ==
    /\ snOp = "done"
    /\ Len(snIn) = 36
    /\ snIn[35] = 195
    /\ snName.name = FirstBytes(snIn, NameLen)

\* The bytes of a string before its first NUL
RECURSIVE UpToNul(_)
UpToNul(q) ==
    IF q = <<>> \/ Head(q) = 0 THEN <<>> ELSE <<Head(q)>> \o UpToNul(Tail(q))

\* C16: from_str uses at most 32 bytes of the string, and the default
\* display of the name writes the string's prefix up to the first NUL, with
\* no padding byte in it.
C16_DisplayPrefix ==
    snOp = "done" =>
        /\ Len(snName.name) <= NameLen
        /\ snShown = UpToNul(FirstBytes(snIn, NameLen))


(***************************************************************************)
(* Properties of the ESB controller: failures                              *)
(***************************************************************************)

\* C17: an endpoint added with queued = false has a router-mandatory session
\* from the moment it is in the table, and a send_to on it towards a peer
\* that is not connected returns Error::Send; an endpoint added with
\* queued = true has a session that is not router-mandatory.
C17_MandatoryUnlessQueued ==
    /\ \A b \in BusIds :
          endpoints[b].present =>
              endpoints[b].session.mandatory = ~endpoints[b].queued
    /\ (/\ lastOp.op \in {"send_to", "Controller_send_to"}
        /\ endpoints[lastOp.bus].present
        /\ ~endpoints[lastOp.bus].queued
        /\ lastOp.peer = "absent") =>
            /\ ~lastOp.result.ok
            /\ lastOp.result.err = "Send"

\* A send on a bus that is not queued, to a peer that is not connected
C17_Witness ==
    /\ lastOp.op = "send_to"
    /\ endpoints[lastOp.bus].present
    /\ ~endpoints[lastOp.bus].queued
    /\ endpoints[lastOp.bus].session.mandatory
    /\ lastOp.peer = "absent"
    /\ lastOp.result.err = "Send"

\* C18: EndpointList::send_to on a bus id that is not in the table returns
\* Err(UnknownBusId) and passes no frame to any session; when the transport
\* fails it returns Err(Send(source, dest, ..)) with the source and the
\* destination the call was given; and no send_to changes an endpoint.
C18_SendToErrors ==
    /\ [](lastOp.op = "send_to" =>
            /\ ~endpoints[lastOp.bus].present =>
                  /\ lastOp.result =
                        [ok |-> FALSE, err |-> "UnknownBusId", bus |-> lastOp.bus]
                  /\ handed = <<>>
            /\ (endpoints[lastOp.bus].present
                   /\ ~transport_accepts(endpoints, lastOp.bus, lastOp.peer)) =>
                  lastOp.result = [ok |-> FALSE, err |-> "Send",
                                   src |-> lastOp.source, dst |-> lastOp.dest])
    /\ [][lastOp'.op = "send_to" => endpoints' = endpoints]_vars

\* A send through a router hop failed, and the error names the destination
C18_Witness ==
    /\ lastOp.op = "send_to"
    /\ endpoints[lastOp.bus].present
    /\ Len(handed) = 1
    /\ handed[1].via # lastOp.dest
    /\ lastOp.result = [ok |-> FALSE, err |-> "Send",
                        src |-> lastOp.source, dst |-> lastOp.dest]


(***************************************************************************)
(* Properties of the RPC client                                            *)
(***************************************************************************)

\* C19: when RpcClient::request has returned, it made no call on any session
\* if the endpoint was not in the table and the result is
\* Err(UnknownEndpoint), and otherwise exactly one send followed by exactly
\* one receive on the endpoint's session.
C19_OneSendOneRecv ==
    \A c \in RpcEndpoints :
        (cliPc[c] = "idle" /\ cliResult[c] # NoResult) =>
            IF ~cliResult[c].ok /\ cliResult[c].err = "UnknownEndpoint"
            THEN cliCalls[c].sends = 0 /\ cliCalls[c].recvs = 0
            ELSE cliCalls[c].sends = 1 /\ cliCalls[c].recvs = 1

\* C19, with the failed send: on a known endpoint request() makes exactly one
\* send; when the send succeeds it makes exactly one receive after it, and
\* when the send fails it returns the transport error and makes no receive.
\* On an unknown endpoint it makes no call and returns Err(UnknownEndpoint).
C19_SendThenRecv ==
    \A c \in RpcEndpoints :
        /\ cliPc[c] = "recv" =>
              cliCalls[c] = [sends |-> 1, sent |-> TRUE, recvs |-> 0]
        /\ (cliPc[c] = "idle" /\ cliResult[c] # NoResult) =>
              IF ~cliResult[c].ok /\ cliResult[c].err = "UnknownEndpoint"
              THEN cliCalls[c] = NoCalls
              ELSE /\ cliCalls[c].sends = 1
                   /\ cliCalls[c].recvs = IF cliCalls[c].sent THEN 1 ELSE 0
                   /\ ~cliCalls[c].sent =>
                          cliResult[c] = [ok |-> FALSE, err |-> "Transport",
                                          from |-> "send"]

\* A second request of a client returned a reply after one send and one
\* receive
C19_Witness ==
    /\ nRequests >= 2
    /\ nDelivered["e1"] = 2
    /\ cliPc["e1"] = "idle"
    /\ cliResult["e1"].ok
    /\ cliCalls["e1"] = [sends |-> 1, sent |-> TRUE, recvs |-> 1]


(***************************************************************************)
(* Properties of the ESB run loop: errors                                  *)
(***************************************************************************)

\* The buses of a sequence, as a set
BusesOf(order) == {order[i] : i \in 1..Len(order)}

\* C20: a step of the run loop that ends with an error, and the handle_err
\* call after it, leave every endpoint as it was (same bus ids, sessions and
\* routers); the loop leaves the error only by calling handle_err with it;
\* and when handle_err returns Ok the loop polls again, every bus of the
\* table being in the poll set.
C20_ErrorsKeepEndpoints ==
    /\ [][(pendingErr # NoErr \/ pendingErr' # NoErr) => endpoints' = endpoints]_vars
    /\ [](loopPc = "err" => pendingErr # NoErr)
    /\ [][(loopPc = "err" /\ loopPc' # "err") =>
            /\ lastOp' = [op |-> "handle_err", error |-> pendingErr]
            /\ loopPc' \in {"poll", "returned"}]_vars
    /\ [](loopPc = "poll" =>
            \A b \in BusIds :
                (endpoints[b].present /\ inbox[b] # <<>>) =>
                    b \in BusesOf(ready_buses(pollOrder, endpoints, inbox)))

\* A receive failed with the frame left in the socket, handle_err returned
\* Ok, and the bus is about to be polled again
C20_Witness ==
    /\ lastOp.op = "handle_err"
    /\ lastOp.error = [err |-> "Transport", from |-> "recv"]
    /\ loopPc = "poll"
    /\ endpoints["ctl"].present
    /\ inbox["ctl"] # <<>>

\* The run loop with its steps taken whenever they stay possible: the thread
\* in try_run_loop is scheduled, so a call it is about to make is made
FairRun ==
    /\ WF_vars(\E ok \in BOOLEAN : handle_err(ok))
    /\ WF_vars(\E recv_res \in {"ok", "fail_keep", "fail_drop"}, h \in BOOLEAN,
                  ok \in BOOLEAN : run_bus(recv_res, h, ok))

\* The run loop with frames of one source only (to the node or to relay,
\* well-formed or not)
NextRunOneSource ==
    \/ \E b \in BusIds, f \in {g \in ArrivingFrames : g.src = "A"} : net_arrive(b, f)
    \/ \E ok \in BOOLEAN : on_ready(ok)
    \/ \E ok \in BOOLEAN : poll(ok)
    \/ \E recv_res \in {"ok", "fail_keep", "fail_drop"}, h \in BOOLEAN, ok \in BOOLEAN :
          run_bus(recv_res, h, ok)
    \/ \E ok \in BOOLEAN : handle_err(ok)

SpecRunFair == InitRun /\ [][NextRunOneSource]_vars /\ FairRun

\* The error of every processing round reaches handle_err: a step of run()
\* that ends with an error (handler.handle's Err included) puts the loop in
\* the Err arm with that error, the Err arm is left only by calling
\* handle_err with it, and the call is eventually made
ErrorsReachHandleErr ==
    /\ [][(lastOp'.op \in {"run", "poll"} /\ pendingErr' # NoErr) => loopPc' = "err"]_vars
    /\ [][(lastOp'.op = "run" /\ lastDispatch'.how = "handle"
           /\ lastDispatch'.did.err # NoErr) =>
             /\ loopPc' = "err"
             /\ pendingErr' = [err |-> "ServiceError", from |-> "handle"]]_vars
    /\ [][(loopPc = "err" /\ loopPc' # "err") =>
             lastOp' = [op |-> "handle_err", error |-> pendingErr]]_vars
    /\ (loopPc = "err") ~> (lastOp.op = "handle_err")

\* When handle_err returns Ok the loop polls again
OkKeepsPolling ==
    [][(loopPc = "err" /\ loopPc' # "err" /\ pendingErr' = NoErr) => loopPc' = "poll"]_vars

\* C21 as stated: every error of a round reaches handle_err, the loop goes on
\* polling when handle_err returns Ok, and try_run_loop returns only when
\* handle_err returned an error.
C21_FatalOnlyByHandleErr ==
    /\ ErrorsReachHandleErr
    /\ OkKeepsPolling
    /\ [](loopPc = "returned" =>
            /\ lastOp.op = "handle_err"
            /\ pendingErr = [err |-> "ServiceError", from |-> "handle_err"])

\* C21, amended: every error of a round reaches handle_err, the loop goes on
\* polling when handle_err returns Ok, and try_run_loop returns only when
\* handle_err returned an error or when on_ready, called once before the
\* first poll, returned an error.
C21_FatalByHandleErrOrOnReady ==
    /\ ErrorsReachHandleErr
    /\ OkKeepsPolling
    /\ [](loopPc = "returned" =>
            \/ /\ lastOp.op = "handle_err"
               /\ pendingErr = [err |-> "ServiceError", from |-> "handle_err"]
            \/ /\ lastOp = [op |-> "on_ready"]
               /\ pendingErr = [err |-> "ServiceError", from |-> "on_ready"])
    /\ [][(loopPc # "start" /\ loopPc' = "returned" /\ loopPc # "returned") =>
             (loopPc = "err" /\ lastOp'.op = "handle_err")]_vars

\* handler.handle returned an error, handle_err got it and returned Ok, and
\* the loop is polling again
C21_Witness ==
    /\ lastOp.op = "handle_err"
    /\ lastOp.error = [err |-> "ServiceError", from |-> "handle"]
    /\ loopPc = "poll"
    /\ pendingErr = NoErr

(***************************************************************************)
(* Properties of the ESB controller: session identity                      *)
(***************************************************************************)

\* C22: for every bus of the endpoint table, the identity configured on its
\* session is what handler.identity() returned when the bus was added (the
\* handler's identity does not change), for a locator and for a
\* pre-constructed socket alike.
C22_SessionIdentity ==
    \A b \in BusIds :
        endpoints[b].present => endpoints[b].session.identity = identity

(***************************************************************************)
(* Properties of the worker thread: the Terminate envelope                 *)
(***************************************************************************)

\* The number of Terminate envelopes among the first n of a channel
RECURSIVE TerminatesIn(_, _)
TerminatesIn(ch, n) ==
    IF n = 0 THEN 0
    ELSE TerminatesIn(ch, n - 1) + (IF ch[n] = Terminate THEN 1 ELSE 0)

\* Terminate envelopes placed on the channel so far: those still queued and
\* the one the worker received (the worker receives nothing after it)
TerminatesPlaced ==
    TerminatesIn(chan, Len(chan)) + (IF endedBy.by = "Terminate" THEN 1 ELSE 0)

\* C23: at most one Terminate envelope is ever placed on the channel of a
\* UThread; only Drop of the handle places one; and no sending operation of
\* a USender places a Terminate envelope or returns one in its error.
C23_TerminateOnlyByDrop ==
    /\ [](TerminatesPlaced <= 1)
    /\ [][TerminatesPlaced' # TerminatesPlaced =>
            /\ TerminatesPlaced' = TerminatesPlaced + 1
            /\ handlePc = "alive"
            /\ handlePc' \in {"drop_join", "dropped"}
            /\ lastSend' = lastSend]_vars
    /\ [][lastSend' # lastSend =>
            /\ lastSend'.op \in SendOps
            /\ TerminatesPlaced' = TerminatesPlaced
            /\ chan' \in {chan, Append(chan, Msg(lastSend'.id))}
            /\ ~lastSend'.result.ok =>
                   lastSend'.result =
                       [ok |-> FALSE, err |-> "Disconnected", msg |-> lastSend'.id]]_vars

\* A message sent with send_deadline is queued and Drop of the handle placed
\* its one Terminate envelope behind it
C23_Witness ==
    /\ TerminatesPlaced = 1
    /\ Len(chan) = 2
    /\ chan[1].kind = "Msg"
    /\ chan[2] = Terminate
    /\ lastSend.op = "send_deadline"
    /\ handlePc = "drop_join"

(***************************************************************************)
(* Properties of the worker thread: errors of process() and tick()         *)
(***************************************************************************)

\* C24: an Err from process() or from tick() is reported with
\* service.error and the worker stays in its loop, at the next receive,
\* without calling terminate(); the loop ends only when process() returns
\* Break(code), when a Terminate envelope is received or when the channel
\* is disconnected.
C24_ErrorsDoNotEndLoop ==
    /\ [][(processed' # processed /\ lastStep'.result = "Err") =>
            /\ reports' = reports + 1
            /\ workerPc' = "loop"
            /\ terminateCalls' = terminateCalls]_vars
    /\ [][(tickCalls' # tickCalls /\ ~lastStep'.ok) =>
            /\ reports' = reports + 1
            /\ workerPc' = "loop"
            /\ terminateCalls' = terminateCalls]_vars
    /\ [][(workerPc = "loop" /\ workerPc' # "loop") =>
            \/ /\ lastStep'.did = "process"
               /\ lastStep'.result \in {"Break0", "Break2"}
               /\ endedBy' = [by |-> "Break", code |-> lastStep'.result]
            \/ /\ lastStep'.did = "terminate"
               /\ chan # <<>> /\ Head(chan) = Terminate
               /\ endedBy' = [by |-> "Terminate"]
            \/ /\ lastStep'.did = "disconnected"
               /\ chan = <<>> /\ ~senders_alive
               /\ endedBy' = [by |-> "Disconnected"]]_vars
    /\ [](workerPc # "loop" => endedBy.by \in {"Break", "Terminate", "Disconnected"})

\* Two errors were reported on a worker that ticks, and the worker went on
\* to process a third message and is still in its loop
C24_Witness ==
    /\ reports = 2
    /\ tickCalls >= 1
    /\ Len(processed) = 3
    /\ lastStep = [did |-> "process", id |-> 3, result |-> "Continue"]
    /\ workerPc = "loop"

(***************************************************************************)
(* Properties of the worker thread: reports to the monitor                 *)
(***************************************************************************)

\* The context and the error of the report a loop iteration makes
ReportOf(step) ==
    IF step.did = "process" THEN <<"service process error", " - ", ProcessError>>
    ELSE IF step.did = "tick" THEN <<"service tick error", " - ", TickError>>
    ELSE <<"channel to the service is broken", " - ", "disconnected">>

\* C25: every error a service reports with context c and error e puts
\* exactly one UErrorMsg {service: NAME, error: "c - e"} on the monitor
\* channel when monitor() is present and nothing when it is absent; nothing
\* else is ever put on it; and a monitor whose channel is broken changes
\* nothing: after an Err of process() or tick() the worker stays in its loop.
C25_OneMonitorMessage ==
    /\ [][reports' = reports + 1 =>
            /\ monitor = "open" =>
                  monChan' = Append(monChan, [service |-> NAME,
                                              error |-> ReportOf(lastStep')])
            /\ monitor = "absent" => monChan' = monChan
            /\ monitor = "broken" =>
                  /\ monChan' = monChan
                  /\ lastStep'.did \in {"process", "tick"} => workerPc' = "loop"]_vars
    /\ [][reports' = reports => monChan' = monChan]_vars

(***************************************************************************)
(* Properties of the RPC server: handler errors                            *)
(***************************************************************************)

\* C26: in the RPC server loop an Err of handler.handle is converted into a
\* Failure reply, which is the one reply the server sends for that request;
\* it does not end the loop and is not passed to handle_err, which gets
\* only the transport and presentation errors of a round (poll, receive,
\* unmarshall, send); once the reply is sent the endpoint's session is ready
\* for its next request; and the loop returns only when handle_err returns
\* an error.
C26_HandlerErrIsReply ==
    /\ [][(srvLast' # srvLast /\ srvLast'.how = "handled"
           /\ ~srvLast'.did.handled.ok) =>
            /\ srvLast'.did.send_calls =
                   <<FailureReply(into_failure(srvLast'.did.handled.err))>>
            /\ srvPc' \in {"poll", "round", "err"}
            /\ srvErr' \in {NoErr, [err |-> "Transport", from |-> "send"]}
            /\ srvErr' = NoErr =>
                   /\ repChan'[srvLast'.endpoint] =
                          Append(repChan[srvLast'.endpoint],
                                 <<"enc", srvLast'.did.send_calls[1]>>)
                   /\ ~srvMustReply'[srvLast'.endpoint]]_vars
    /\ [](srvPc = "err" =>
            /\ srvErr.err \in {"Transport", "Presentation"}
            /\ srvErr.from \in {"poll", "recv", "unmarshall", "send"})
    /\ [][(srvPc = "err" /\ srvPc' # "err") =>
            /\ srvLast' = [how |-> "handle_err", error |-> srvErr]
            /\ srvPc' \in {"poll", "returned"}]_vars
    /\ [][(srvPc # "returned" /\ srvPc' = "returned") =>
            (srvPc = "err" /\ srvLast'.how = "handle_err")]_vars

\* The client of e1 got the Failure reply made from a handler error, and
\* the server has since handled a request of e2 and is polling again
C26_Witness ==
    /\ cliResult["e1"].ok
    /\ cliResult["e1"].reply = FailureReply(into_failure("boom"))
    /\ nHandled["e1"] = 1
    /\ nHandled["e2"] = 1
    /\ srvLast.how = "handled"
    /\ srvLast.endpoint = "e2"
    /\ srvLast.did.handled.ok
    /\ srvPc = "poll"

(***************************************************************************)
(* Properties of the launcher: a daemon thread that returns                *)
(***************************************************************************)

\* C27: when run_impl of a thread daemon returns Ok(()), its thread panics
\* (the unreachable branch) and join on its handle returns
\* Err(ThreadJoin(name)); and join on a Thread handle never returns Ok(()).
C27_ThreadJoinNeverOk ==
    \A d \in DaemonNames :
        /\ (lnEnd[d] # NoEnd /\ lnEnd[d].how = "Thread" /\ lnEnd[d].run.how = "Ok") =>
               /\ lnEnd[d].end.panicked
               /\ lnJoin[d] # NoJoin =>
                      lnJoin[d] = [ok |-> FALSE,
                                   err |-> [kind |-> "ThreadJoin", name |-> d]]
        /\ (lnJoin[d] # NoJoin /\ lnHandle[d].handle.kind = "Thread") =>
               /\ ~lnJoin[d].ok
               /\ lnJoin[d].err.kind \in {"ThreadJoin", "ThreadAborted"}

\* Both daemons are threads: run_impl of d1 returned Ok(()) and its join
\* returned ThreadJoin, run_impl of d2 returned an error and its join
\* returned ThreadAborted
C27_Witness ==
    /\ lnEnd["d1"].how = "Thread"
    /\ lnEnd["d1"].run = [how |-> "Ok"]
    /\ lnJoin["d1"] = [ok |-> FALSE, err |-> [kind |-> "ThreadJoin", name |-> "d1"]]
    /\ lnEnd["d2"].how = "Thread"
    /\ lnEnd["d2"].run.how = "Err"
    /\ lnJoin["d2"].err.kind = "ThreadAborted"

(***************************************************************************)
(* Properties of the peer supervisor                                       *)
(***************************************************************************)

\* Child i is the one child of connection i: of the kind `threaded` asks
\* for, recorded as handler i, with a copy of the listen parameters whose
\* remote_socket is the remote address of connection i
ChildOfConnection(i) ==
    /\ children[i].kind = (IF threaded THEN "Thread" ELSE "Process")
    /\ children[i].params = [connect |-> FALSE, remote_socket |-> svAccepted[i]]
    /\ children[i].peer = svAccepted[i]
    /\ handlers[i] = [kind |-> children[i].kind, child |-> i]

\* The parent can accept the next connection whatever its children are
\* doing
ParentDoesNotWait ==
    (svPc = "listen" /\ Len(svAccepted) < MaxConns) =>
        ENABLED (\E r \in Remotes : spawner(r, "ok"))

\* C28 as stated: in listen mode every accepted connection has exactly one
\* child, a thread when threaded and a forked process otherwise, whose
\* parameters are a copy with remote_socket set to the connection's remote
\* address; the parent accepts again without waiting for its children; the
\* handlers recorded are as many as the connections accepted; and the loop
\* never returns Ok.
C28_OneChildPerConnection ==
    /\ Len(children) = Len(svAccepted)
    /\ Len(handlers) = Len(svAccepted)
    /\ \A i \in 1..Len(children) : ChildOfConnection(i)
    /\ ParentDoesNotWait
    /\ svPc \in {"listen", "returned_err", "panicked"}

\* C28, amended: while the parent is in its loop every accepted connection
\* has exactly one such child and one recorded handler, and the parent
\* accepts again without waiting for its children.  The parent leaves the
\* loop only with an error: it returns the I/O error when the thread cannot
\* be spawned and panics when accept or fork fails; after a failed spawn or
\* fork the connection accepted last has no child and no handler.  The loop
\* never returns Ok.
C28_OneChildWhileListening ==
    /\ Len(handlers) = Len(children)
    /\ svPc = "listen" => Len(children) = Len(svAccepted)
    /\ svPc # "listen" => Len(children) \in {Len(svAccepted), Len(svAccepted) - 1}
    /\ \A i \in 1..Len(children) : ChildOfConnection(i)
    /\ ParentDoesNotWait
    /\ svPc \in {"listen", "returned_err", "panicked"}
    /\ svPc = "returned_err" => (threaded /\ Len(children) = Len(svAccepted) - 1)

\* A forking parent accepted three connections from two remote addresses
\* while its first child is still setting up its session and its second
\* child is in its runtime
C28_Witness ==
    /\ ~threaded
    /\ svPc = "listen"
    /\ svAccepted = <<"r1", "r2", "r1">>
    /\ Len(handlers) = 3
    /\ children[1].pc = "init"
    /\ children[2].pc = "runtime"
    /\ children[3].params.remote_socket = "r1"
    /\ children[3].kind = "Process"

(***************************************************************************)
(* Properties of the ESB run loop: order of processing                     *)
(***************************************************************************)

\* 1, 2, ..., n
FirstN(n) == [i \in 1..n |-> i]

\* A step of run() for one ready bus
RunStep == loopPc = "round" /\ ready' # ready

\* Each poll round takes at most one frame from each ready bus: the ready
\* list names no bus twice, and a step of run() takes at most one frame, from
\* the bus it is at, which is not visited again in the round
OneFramePerBusAndRound ==
    /\ [](\A i, j \in 1..Len(ready) : ready[i] = ready[j] => i = j)
    /\ [][RunStep =>
            /\ \A c \in BusIds \ {Head(ready)} :
                   consumed'[c] = consumed[c] /\ inbox'[c] = inbox[c]
            /\ consumed'[Head(ready)] - consumed[Head(ready)] \in {0, 1}
            /\ Len(dispatched'[Head(ready)]) - Len(dispatched[Head(ready)]) \in {0, 1}
            /\ Head(ready) \notin BusesOf(ready')]_vars

\* C29 as stated: each poll round receives at most one frame from each ready
\* bus, and over any number of rounds the frames handled or relayed for a
\* bus are the first, second, ... frame that arrived on it, up to some
\* frame: a prefix of the arrival sequence.
C29_PrefixOfArrivals ==
    /\ OneFramePerBusAndRound
    /\ [](\A b \in BusIds : dispatched[b] = FirstN(Len(dispatched[b])))

\* C29, amended: each poll round receives at most one frame from each ready
\* bus, and over any number of rounds the frames handled or relayed for a
\* bus are frames received from it, in arrival order and each at most once;
\* a frame that is lost in a failed receive or cannot be decoded is left
\* out, so the sequence is a subsequence of the arrival sequence.
C29_InArrivalOrder ==
    /\ OneFramePerBusAndRound
    /\ [](\A b \in BusIds :
            /\ \A i \in 1..Len(dispatched[b]) :
                   /\ dispatched[b][i] \in 1..consumed[b]
                   /\ i > 1 => dispatched[b][i - 1] < dispatched[b][i]
            /\ consumed[b] + Len(inbox[b]) <= arrived)

\* Over two rounds the first frame of the control bus was handled and the
\* second relayed
C29_Witness ==
    /\ dispatched["ctl"] = <<1, 2>>
    /\ consumed["ctl"] = 2
    /\ lastDispatch.how = "relay"
    /\ lastDispatch.bus = "ctl"
    /\ loopPc = "poll"


(***************************************************************************)
(* Controller::recv_poll                                                   *)
(***************************************************************************)
\* position of a bus in the order the poll set is iterated in
PollPos(b) == CHOOSE i \in 1..Len(pollOrder) : pollOrder[i] = b

\* C30: recv_poll polls once; when it returns Ok the vector holds exactly one
\* item for each bus the poll reported ready, in the order of the poll set,
\* each item carrying that bus, the src of the frame received from it and the
\* request decoded from the frame's msg; no frame is passed to handler.handle
\* and none is sent on, whatever its dst.
C30_RecvPollItems ==
    lastOp.op = "recv_poll" =>
        /\ lastOp.polls = 1
        /\ lastOp.handle_calls = <<>>
        /\ handed = <<>>
        /\ \A b \in BusIds : dispatched[b] = <<>>
        /\ lastOp.result.ok =>
              LET items == lastOp.result.items
                  rb == lastOp.ready
                  taken == lastOp.taken
              IN  /\ Len(items) = Len(rb)
                  /\ Len(taken) = Len(rb)
                  /\ \A i \in 1..Len(rb) :
                        /\ items[i].bus_id = rb[i]
                        /\ taken[i].bus = rb[i]
                        /\ items[i].source = taken[i].frame.src
                        /\ unmarshall(taken[i].frame.msg)
                              = [ok |-> TRUE, request |-> items[i].request]
                  /\ \A i, j \in 1..Len(rb) : i < j => PollPos(rb[i]) < PollPos(rb[j])

\* recv_poll returned two items, of bus msg and then of bus ctl as the poll set
\* orders them, and one of the two frames was addressed to another service
C30_Witness ==
    /\ lastOp.op = "recv_poll"
    /\ lastOp.result.ok
    /\ pollOrder = <<"msg", "ctl">>
    /\ Len(lastOp.result.items) = 2
    /\ lastOp.result.items[1].bus_id = "msg"
    /\ \E i \in 1..2 : lastOp.taken[i].frame.dst # identity


(***************************************************************************)
(* Dropping and joining the UThread handle                                 *)
(***************************************************************************)
\* a step in which Drop::drop of the handle sends (or fails to send) Terminate
DropStep == handlePc = "alive" /\ handlePc' \in {"panicked", "drop_join", "dropped"}

\* C32: when the handle is dropped after the worker thread has exited, the
\* send of Terminate fails and drop panics; drop goes on without a panic only
\* when the worker's receiver is alive at the send.  A join that returned and
\* a Break both leave the worker exited, the former always.
C32_DropPanicsAfterExit ==
    /\ [][DropStep => (handlePc' = "panicked" <=> workerPc = "exited")]_vars
    /\ [][DropStep /\ handlePc' # "panicked" => rxAlive]_vars
    /\ [](threadTaken /\ handlePc = "alive" => workerPc = "exited")
    /\ [](handlePc \in {"drop_join", "dropped"} => ~threadTaken)

\* the service returned Break, the worker thread ended, and the drop of the
\* handle panicked
C32_Witness ==
    /\ handlePc = "panicked"
    /\ endedBy.by = "Break"
    /\ workerPc = "exited"


\* C33: join sends nothing to the worker.  While join waits, no Terminate is
\* in the channel and the handle's own sender keeps the channel connected, so
\* the worker leaves its loop only when process() returns Break; join returns
\* only after the worker ended in that way, and a join called after the thread
\* was taken does not wait.
C33_JoinWaitsForBreak ==
    /\ [][handlePc = "alive" /\ handlePc' = "joining" => chan' = chan]_vars
    /\ [](handlePc = "joining" =>
             /\ \A i \in 1..Len(chan) : chan[i] # Terminate
             /\ senders_alive)
    /\ [][handlePc = "joining" /\ workerPc = "loop" /\ workerPc' # "loop"
             => lastStep'.did = "process" /\ lastStep'.result \in {"Break0", "Break2"}]_vars
    /\ [][handlePc = "joining" /\ handlePc' # "joining"
             => handlePc' = "alive" /\ workerPc = "exited" /\ endedBy.by = "Break"]_vars
    /\ [][handlePc = "alive" /\ threadTaken => handlePc' # "joining"]_vars

\* join is waiting for a worker that has processed every message without a
\* Break and is idle in its loop; the handle's sender is the only one left
C33_Witness ==
    /\ handlePc = "joining"
    /\ workerPc = "loop"
    /\ Len(processed) = 2
    /\ chan = <<>>
    /\ clones = 0


\* C34: the channel is served in order.  When terminate() is called for the
\* Terminate of Drop, every message enqueued before that Terminate has been
\* passed to process() and the ones not processed are behind it; a message
\* behind Terminate is never passed to process(); a message ahead of Terminate
\* stays unprocessed only when the worker stopped on a Break.
C34_ProcessedBeforeTerminate ==
    /\ [](accepted = processed \o MsgIds(chan))
    /\ [][lastStep' # lastStep /\ lastStep'.did = "terminate"
             => /\ Head(chan) = Terminate
                /\ terminateCalls' = terminateCalls + 1
                /\ accepted = processed \o MsgIds(Tail(chan))]_vars
    /\ [](\A i, j \in 1..Len(chan) :
             i < j /\ chan[i] = Terminate /\ chan[j].kind = "Msg"
                 => \A k \in 1..Len(processed) : processed[k] # chan[j].id)
    /\ [][terminateCalls > 0 => processed' = processed]_vars
    /\ [](\A i, j \in 1..Len(chan) :
             i < j /\ chan[i].kind = "Msg" /\ chan[j] = Terminate /\ workerPc # "loop"
                 => endedBy.by = "Break")

\* the worker processed two messages enqueued before the handle was dropped
\* and then called terminate() for its Terminate; a third message, sent
\* through a surviving USender after the Terminate, stays in the channel
C34_Witness ==
    /\ endedBy.by = "Terminate"
    /\ terminateCalls = 1
    /\ Len(processed) = 2
    /\ Len(accepted) = 3
    /\ chan = <<Msg(accepted[3])>>


\* C35: once terminate() has been called the worker calls neither process()
\* nor tick() again; tick() is called only in the step that takes the receive
\* timeout, which exists only with a tick interval, so without one tick() is
\* never called.
C35_NothingAfterTerminate ==
    /\ [][terminateCalls > 0
             => processed' = processed /\ tickCalls' = tickCalls
                /\ terminateCalls' = terminateCalls]_vars
    /\ [][tickCalls' # tickCalls
             => /\ tickCalls' = tickCalls + 1
                /\ lastStep'.did = "tick"
                /\ ticks /\ tickDue /\ chan = <<>>
                /\ workerPc = "loop"]_vars
    /\ [](~ticks => tickCalls = 0)

\* with a tick interval: tick() ran before any message, then a message was
\* processed, then terminate() was called and the worker left its loop
C35_Witness ==
    /\ ticks
    /\ tickCalls = 1
    /\ Len(processed) = 1
    /\ terminateCalls = 1
    /\ workerPc = "finished"
    /\ tickAt = 0


(***************************************************************************)
(* Properties of the ESB run loop: on_ready                                *)
(***************************************************************************)
\* C39: try_run_loop calls on_ready once, before anything else: until then
\* no bus was polled, no frame taken and neither handle nor handle_err
\* called, and it is never called again.  When on_ready returns an error the
\* loop returns it: nothing is polled and handle_err is not called.
C39_OnReadyOnceAndFirst ==
    /\ [](loopPc = "start" =>
             /\ lastOp = NoOp
             /\ lastDispatch = NoDispatch
             /\ ready = <<>>
             /\ \A b \in BusIds : consumed[b] = 0)
    /\ [][loopPc = "start" /\ loopPc' # "start" => lastOp' = [op |-> "on_ready"]]_vars
    /\ [][loopPc # "start" =>
             /\ loopPc' # "start"
             /\ lastOp' # lastOp => lastOp'.op # "on_ready"]_vars
    /\ [](lastOp.op = "on_ready" /\ pendingErr # NoErr =>
             /\ loopPc = "returned"
             /\ pendingErr = [err |-> "ServiceError", from |-> "on_ready"]
             /\ lastDispatch = NoDispatch
             /\ ready = <<>>
             /\ \A b \in BusIds : consumed[b] = 0)
    /\ [][loopPc = "returned" => loopPc' = "returned" /\ lastOp' = lastOp]_vars

\* on_ready returned an error and try_run_loop returned it, with a frame
\* waiting on a bus that was never polled
C39_Witness ==
    /\ loopPc = "returned"
    /\ lastOp = [op |-> "on_ready"]
    /\ \E b \in BusIds : inbox[b] # <<>>


(***************************************************************************)
(* Properties of the RPC server: a request that cannot be decoded          *)
(***************************************************************************)
\* the server takes from endpoint e a request its unmarshaller does not know
TakesUndecodable(e) ==
    /\ reqChan[e] # <<>>
    /\ reqChan'[e] = Tail(reqChan[e])
    /\ Head(reqChan[e])[2] \notin KnownRequests

\* C38: for a request that fails to unmarshal the server calls neither
\* handler.handle nor send: the Presentation error ends the round and is what
\* handle_err gets.  The session has received a request and owes its reply
\* from then on, no reply is delivered to the client of that endpoint, and a
\* client waiting in its receive gets none.
C38_UndecodableGetsNoReply ==
    /\ [][\A e \in RpcEndpoints : TakesUndecodable(e) =>
             /\ srvLast'.how = "undecoded"
             /\ nHandled' = nHandled
             /\ nReplyCalls' = nReplyCalls
             /\ repChan' = repChan
             /\ srvPc' = "err"
             /\ srvErr' = [err |-> "Presentation", from |-> "unmarshall"]
             /\ srvMustReply'[e]]_vars
    /\ [][srvPc = "err" /\ srvPc' # "err"
             => srvLast' = [how |-> "handle_err", error |-> srvErr]]_vars
    /\ [](\A e \in RpcEndpoints : srvMustReply[e] => repChan[e] = <<>>)
    /\ [][\A e \in RpcEndpoints : srvMustReply[e] =>
             /\ srvMustReply'[e]
             /\ nDelivered'[e] = nDelivered[e]
             /\ nReplies'[e] = nReplies[e]]_vars

\* the request of e1 could not be decoded, handle_err got the Presentation
\* error and returned Ok, the server polls again, and the client of e1 is
\* still in its receive with no reply on the way
C38_Witness ==
    /\ srvLast = [how |-> "handle_err",
                  error |-> [err |-> "Presentation", from |-> "unmarshall"]]
    /\ srvPc = "poll"
    /\ cliPc["e1"] = "recv"
    /\ srvMustReply["e1"]
    /\ nHandled["e1"] = 0
    /\ repChan["e1"] = <<>>


(***************************************************************************)
(* A poll round that fails: the ESB controller and the RPC server          *)
(***************************************************************************)
\* A process runs the ESB controller's loop or the RPC server's loop; both
\* loops take their steps whenever they can
FairRounds ==
    /\ FairRun
    /\ WF_vars(\E ok \in BOOLEAN : poll(ok))
    /\ WF_vars(\E ok \in BOOLEAN : rpc_poll(ok))
    /\ WF_vars(\E recv_ok \in BOOLEAN, h \in HandlerResults, ok \in BOOLEAN :
                  rpc_serve(recv_ok, h, ok))
    /\ WF_vars(\E ok \in BOOLEAN : rpc_handle_err(ok))

InitRounds == InitRun \/ InitRpc

NextRounds ==
    \/ loopPc # "setup" /\ NextRunOneSource
    \/ loopPc = "setup" /\ NextRpc

SpecRounds == InitRounds /\ [][NextRounds]_vars /\ FairRounds

\* the step of Controller::run for the first ready bus ends with an error
EsbFails == loopPc = "round" /\ ready' # ready /\ pendingErr' # NoErr

\* the step of RpcServer::run for the first ready endpoint ends with an error
RpcFails == srvPc = "round" /\ srvReady' # srvReady /\ srvErr' # NoErr

\* after handle_err returned Ok the loop polls again, and the bus that comes
\* later in the poll set holds a frame
LaterBusWaits ==
    /\ loopPc = "poll"
    /\ lastOp.op = "handle_err"
    /\ endpoints[pollOrder[2]].present
    /\ inbox[pollOrder[2]] # <<>>

\* that bus was read, or the loop met another error before
LaterBusRead ==
    \/ loopPc \in {"err", "returned"}
    \/ (lastDispatch # NoDispatch /\ lastDispatch.bus = pollOrder[2])

\* the same for the RPC server and the endpoint that comes later in its table
LaterEndpointWaits ==
    /\ srvPc = "poll"
    /\ srvLast.how = "handle_err"
    /\ reqChan[RpcOrder[2]] # <<>>
    /\ ~srvMustReply[RpcOrder[2]]

LaterEndpointRead ==
    \/ srvPc \in {"err", "returned"}
    \/ (/\ srvLast.how \in {"recv_failed", "undecoded", "handled"}
        /\ srvLast.endpoint = RpcOrder[2])

RecvPollFails ==
    /\ lastOp'.op = "recv_poll"
    /\ (lastOp' # lastOp \/ consumed' # consumed)
    /\ ~lastOp'.result.ok
    /\ lastOp'.result.err.from \in {"recv", "unmarshall"}

\* C37: when a receive or a decoding fails in recv_poll, the call returns the
\* error alone, without any item; the frames it had received and decoded from
\* the ready buses before the failing one are gone from their sockets, and as
\* a socket only ever loses its oldest frame and gains new ones at its end,
\* no later call can receive them.
C37_FailedCallLosesFrames ==
    /\ [](lastOp.op = "recv_poll" /\ ~lastOp.result.ok =>
             DOMAIN lastOp.result = {"ok", "err"})
    /\ [][RecvPollFails =>
             (/\ Len(lastOp'.dropped) < Len(lastOp'.ready)
              /\ \A i \in 1..Len(lastOp'.dropped) :
                    LET b == lastOp'.ready[i]
                    IN  /\ lastOp'.dropped[i].bus_id = b
                        /\ lastOp'.dropped[i].source = Head(inbox[b]).src
                        /\ lastOp'.taken[i] = [bus |-> b, frame |-> Head(inbox[b])]
                        /\ inbox'[b] = Tail(inbox[b])
                        /\ consumed'[b] = consumed[b] + 1)]_vars
    /\ [][\A b \in BusIds :
             /\ consumed'[b] >= consumed[b]
             /\ \/ inbox'[b] = inbox[b]
                \/ (inbox[b] # <<>> /\ inbox'[b] = Tail(inbox[b]))
                \/ (Len(inbox'[b]) = Len(inbox[b]) + 1
                    /\ SubSeq(inbox'[b], 1, Len(inbox[b])) = inbox[b])]_vars

\* recv_poll received and decoded the frame of the first ready bus, failed on
\* the second and returned the error; the first frame is in no socket
C37_Witness ==
    /\ lastOp.op = "recv_poll"
    /\ ~lastOp.result.ok
    /\ Len(lastOp.ready) = 2
    /\ Len(lastOp.dropped) = 1
    /\ inbox[lastOp.ready[1]] = <<>>
    /\ consumed[lastOp.ready[1]] = 1


(***************************************************************************)
(* Properties of the peer supervisor: Connect mode                         *)
(***************************************************************************)
\* run() is over
RunOver == svPc \in {"returned_ok", "returned_err", "panicked"}

\* the parameters run() has set for the target it connects to
ParamsOf(target) ==
    [framing_protocol |-> params.framing_protocol, connect |-> TRUE,
     remote_id |-> target.id, remote_socket |-> target.addr]

\* the session run() holds after connecting to the target
SessionOf(target) == [to |-> target, framing |-> params.framing_protocol]

\* C40 as stated: in Connect mode run() opens exactly one session and calls
\* the runtime exactly once, with connect = true and remote_id and
\* remote_socket of the target; it never returns Ok: it returns the
\* runtime's error, or panics at unreachable!() when the runtime returned Ok.
C40_OneSessionOneRuntime ==
    (outbound.tried # <<>> /\ RunOver) =>
        /\ svPc # "returned_ok"
        /\ outbound.sessions = <<SessionOf(outbound.tried[1])>>
        /\ outbound.runtime = <<ParamsOf(outbound.tried[1])>>
        /\ svPc = "panicked" <=> outbound.result = Ok
        /\ svPc = "returned_err" <=> outbound.result \in RuntimeResults \ {Ok}

\* C40, amended: in Connect mode run() sets connect = true and remote_id and
\* remote_socket of the target and tries one connection.  When the connection
\* cannot be opened run() returns that error and the runtime is not called;
\* otherwise it holds one session and calls the runtime once with those
\* parameters.  run() never returns Ok: it returns the connection's or the
\* runtime's error, or panics at unreachable!() when the runtime returned Ok.
\* It starts no child and accepts no connection.
C40_OneRuntimeIfConnected ==
    /\ svPc # "returned_ok"
    /\ svAccepted = <<>> /\ handlers = <<>> /\ children = <<>>
    /\ svPc = "connect" <=> outbound = NoOutbound
    /\ outbound.tried # <<>> =>
          /\ Len(outbound.tried) = 1
          /\ params = ParamsOf(outbound.tried[1])
          /\ IF outbound.sessions = <<>>
             THEN /\ svPc = "returned_err"
                  /\ outbound.runtime = <<>>
                  /\ outbound.result \in ConnectResults \ {Ok}
             ELSE /\ outbound.sessions = <<SessionOf(outbound.tried[1])>>
                  /\ outbound.runtime = <<ParamsOf(outbound.tried[1])>>
                  /\ svPc \in {"runtime", "panicked", "returned_err"}
                  /\ svPc = "runtime" <=> outbound.result = NoOutbound.result
                  /\ svPc = "panicked" <=> outbound.result = Ok
                  /\ svPc = "returned_err" <=> outbound.result \in RuntimeResults \ {Ok}

\* connected to n2 at r2 over Brontozaur, the runtime was called once with
\* these parameters and returned an error, which run() returned
C40_Witness ==
    /\ svPc = "returned_err"
    /\ outbound.sessions = <<[to |-> [id |-> "n2", addr |-> "r2"],
                              framing |-> "Brontozaur"]>>
    /\ outbound.runtime = <<[framing_protocol |-> "Brontozaur", connect |-> TRUE,
                             remote_id |-> "n2", remote_socket |-> "r2"]>>
    /\ outbound.result = [ok |-> FALSE, err |-> "peer"]

(***************************************************************************)
(* Properties of several controllers on one bus                            *)
(***************************************************************************)

\* Number of entries of a sequence that pass a test
CountOf(s, Test(_)) == Cardinality({i \in 1..Len(s) : Test(s[i])})

\* A frame carrying request r from service s for service d
IsFrame(f, s, d, r) == f.src = s /\ f.dst = d /\ f.msg = serialize(r)

\* Controller::send_to calls of s for d with request r that returned Ok
AcceptedSends(s, d, r) ==
    LET Test(e) == e.source = s /\ e.dest = d /\ e.request = r /\ e.result.ok
    IN  CountOf(netSent, Test)

\* Frames from s for d with r waiting in the socket of service n
QueuedAt(n, s, d, r) ==
    LET Test(f) == IsFrame(f, s, d, r)
    IN  CountOf(netInbox[n], Test)

\* Frames from s for d with r that the run() of service n passed on
RelayedBy(n, s, d, r) ==
    LET Test(f) == IsFrame(f, s, d, r)
    IN  CountOf(netRelayed[n], Test)

\* Frames from s for d with r that service n lost, by the kind of failure
LostBy(n, whys, s, d, r) ==
    LET Test(e) == e.at = n /\ e.why \in whys /\ IsFrame(e.frame, s, d, r)
    IN  CountOf(netLost, Test)

\* Calls of the handler of service n on the bus with source s and request r
HandledBy(n, s, r) ==
    LET Test(h) == h.bus_id = RelayBus /\ h.source = s /\ h.request = r
    IN  CountOf(netHandled[n], Test)

\* C31: with A, B and C on one bus and every one of them configured with
\* router B, every request A sent to C and the transport accepted is, at any
\* moment, in exactly one place: waiting at B, lost by a failed receive at B,
\* or relayed by B once; every frame B relayed for it went to C directly with
\* src A and is waiting at C, lost by the transport, or was passed to C's
\* handler once with source A.  B's handler is called only for the requests
\* addressed to B, only B relays, and when nothing was lost and nothing waits,
\* C's handler was called exactly once for each request A sent to it.
C31_RelayedOnceToDestination ==
    \A r \in Requests :
        /\ AcceptedSends("A", "C", r) =
              QueuedAt("B", "A", "C", r) + RelayedBy("B", "A", "C", r)
              + LostBy("B", {"recv"}, "A", "C", r)
              + LostBy("A", {"dropped"}, "A", "C", r)
        /\ RelayedBy("B", "A", "C", r) =
              QueuedAt("C", "A", "C", r) + HandledBy("C", "A", r)
              + LostBy("C", {"recv"}, "A", "C", r)
              + LostBy("B", {"send", "dropped"}, "A", "C", r)
        /\ \A i \in 1..Len(netRelayed["B"]) :
              IsFrame(netRelayed["B"][i], "A", "C", r) =>
                  netRelayed["B"][i].via = "C"
        /\ AcceptedSends("A", "B", r) =
              QueuedAt("B", "A", "B", r) + HandledBy("B", "A", r)
              + LostBy("B", {"recv"}, "A", "B", r)
              + LostBy("A", {"dropped"}, "A", "B", r)
        /\ netRelayed["A"] = <<>> /\ netRelayed["C"] = <<>>
        /\ QueuedAt("A", "A", "C", r) = 0
        /\ (netLost = <<>> /\ \A n \in Addr : netInbox[n] = <<>>) =>
              /\ RelayedBy("B", "A", "C", r) = AcceptedSends("A", "C", r)
              /\ HandledBy("C", "A", r) = AcceptedSends("A", "C", r)

\* A sent one "ping" to C; B relayed it once, C's handler got it once with
\* source A, B's handler was not called, nothing waits and nothing was lost
C31_Witness ==
    /\ AcceptedSends("A", "C", "ping") = 1
    /\ Len(netSent) = 1
    /\ RelayedBy("B", "A", "C", "ping") = 1
    /\ netHandled["C"] = <<[bus_id |-> RelayBus, source |-> "A", request |-> "ping"]>>
    /\ netHandled["B"] = <<>>
    /\ netLost = <<>>
    /\ \A n \in Addr : netInbox[n] = <<>>

=============================================================================
